---- MODULE Spec2Model ----
(***************************************************************************)
(* Model of the cashier-query predicate generator                          *)
(* (packages/cashier-query/src/generator.rs) and of the user handlers of   *)
(* cashier-server (api/handlers/users.rs over queries/users.rs).           *)
(*                                                                         *)
(* A Rust String is a sequence of one-character strings, Option<T> is a    *)
(* sequence of length 0 (None) or 1 (Some), and Result<T> is a tagged      *)
(* record.  The registry (a HashMap) is the sequence of its entries in     *)
(* the map's iteration order, with unique keys.                            *)
(***************************************************************************)
EXTENDS Integers, Sequences, FiniteSets, Bags, TLC

VARIABLES
    fields,     \* QueryConfig.fields: the registry entries, in iteration order
    op,         \* the operation that ran last
    config,     \* Option<FieldConfig>: the receiver of the last escape call,
                \* or the argument of the last QueryConfig::field call
    input,      \* the string (escape) or token sequence (parse) passed last
    query,      \* Option<Query>: the tree the last call compiled
    result,     \* what the last call returned
    user_table, \* the rows of table "user" in the order of their ids
    user_role,  \* the rows of table user_role
    requests,   \* the bag of the handler calls that are between two of their
                \* awaits, each as its locals
    response,   \* Option: the request a handler just answered and its answer
    pushed,     \* the messages handed to AppState::send, in order
    files,      \* the names of the files in the avatar folder
    user_registration,      \* the rows of table user_registration
    user_email_updating,    \* the rows of table user_email_updating
    token_table,    \* the rows of table token
    mails,      \* the messages handed to app_data.smtp, in order
    tree        \* a PermissionTree

query_vars == <<fields, op, config, input, query, result>>
store_vars == <<files, user_registration, user_email_updating, token_table,
                mails, tree>>
server_vars == <<user_table, user_role, requests, response, pushed,
                 store_vars>>
vars == <<query_vars, server_vars>>

----------------------------------------------------------------------------
(* Bounds *)

MaxLen == 3         \* longest string handed to FieldConfig::escape
MaxValueLen == 1    \* longest enumerated value token of a comparison
MaxTerms == 2       \* most terms of an enumerated Or / And
MaxAtoms == 3       \* most atoms of an enumerated input of the parser
MaxUsers == 3       \* most rows of table "user"
MaxRoles == 2       \* most role names of an enumerated CreateUserRequest
MaxRequests == 2    \* most handler calls in flight together
MaxCalls == 2       \* most avatar calls that run to their end
MaxMessages == 3    \* most messages pushed by the account handlers

----------------------------------------------------------------------------
(* Option, Result and the Error enum *)

None == <<>>
Some(x) == <<x>>
unwrap_or(o, d) == IF o = None THEN d ELSE o[1]

Ok(v) == [tag |-> "Ok", value |-> v]
Err(e) == [tag |-> "Err", error |-> e]
is_ok(r) == r.tag = "Ok"

InvalidValue(f, t) == [kind |-> "InvalidValue", field |-> f,
        accepted_type |-> t]
ParseError(p) == [kind |-> "ParseError", pos |-> p]
UnsupportedOperation(f, o) ==
    [kind |-> "UnsupportedOperation", field |-> f, required_operation |-> o]
UnknownField(f) == [kind |-> "UnknownField", field |-> f]
EmptyWildcardOperation(o) ==
    [kind |-> "EmptyWildcardOperation", required_operation |-> o]

----------------------------------------------------------------------------
(* Strings *)

Quote == "'"

RECURSIVE replace(_, _, _)
\* str::replace for a one-character pattern
replace(s, from, to) ==
    IF s = <<>> THEN <<>>
    ELSE (IF Head(s) = from THEN to ELSE <<Head(s)>>) \o replace(Tail(s),
            from, to)

RECURSIVE join(_, _)
\* [String]::join
join(strs, sep) ==
    IF strs = <<>> THEN <<>>
    ELSE IF Len(strs) = 1 THEN strs[1]
    ELSE strs[1] \o sep \o join(Tail(strs), sep)

RECURSIVE StringsUpTo(_, _)
\* every string over alphabet of length at most n
StringsUpTo(alphabet, n) ==
    IF n = 0 THEN {<<>>}
    ELSE LET shorter == StringsUpTo(alphabet, n - 1)
         IN shorter \cup {Append(s, c) : s \in shorter, c \in alphabet}

----------------------------------------------------------------------------
(* FromStr / ToString of the primitive types the handlers are built over *)

DigitChars == {"0", "1", "2", "3", "4", "5", "6", "7", "8", "9"}
DigitOrder == <<"0", "1", "2", "3", "4", "5", "6", "7", "8", "9">>
DigitValue(c) == CHOOSE d \in 0..9 : DigitOrder[d + 1] = c

RECURSIVE StripZeros(_)
\* the decimal digits of a number without its leading zeros
StripZeros(digits) ==
    IF Len(digits) > 1 /\ Head(digits) = "0" THEN StripZeros(Tail(digits))
    ELSE digits

RECURSIVE DigitsLeq(_, _)
\* a <= b for two digit strings of the same length
DigitsLeq(a, b) ==
    IF a = <<>> THEN TRUE
    ELSE IF Head(a) = Head(b) THEN DigitsLeq(Tail(a), Tail(b))
    ELSE DigitValue(Head(a)) < DigitValue(Head(b))

\* magnitude <= limit, both without leading zeros
MagnitudeLeq(m, limit) ==
    \/ Len(m) < Len(limit)
    \/ Len(m) = Len(limit) /\ DigitsLeq(m, limit)

\* the largest magnitude of a T of the given sign: i32::MIN, i32::MAX, u32::MAX
MaxMagnitude(T, neg) ==
    IF T = "u32" THEN <<"4", "2", "9", "4", "9", "6", "7", "2", "9", "5">>
    ELSE IF neg THEN <<"2", "1", "4", "7", "4", "8", "3", "6", "4", "8">>
    ELSE <<"2", "1", "4", "7", "4", "8", "3", "6", "4", "7">>

IsDigits(s) == \A i \in 1..Len(s) : s[i] \in DigitChars

RECURSIVE Number(_)
\* the number that at most four decimal digits write
Number(digits) ==
    IF digits = <<>> THEN 0
    ELSE 10 * Number(SubSeq(digits, 1, Len(digits) - 1))
            + DigitValue(digits[Len(digits)])

DaysIn(year, month) ==
    IF month = 2
    THEN (IF year % 4 = 0 /\ (year % 100 # 0 \/ year % 400 = 0) THEN 29 ELSE 28)
    ELSE IF month \in {4, 6, 9, 11} THEN 30 ELSE 31

\* <DateTime<Utc> as FromStr>::from_str on the tokens enumerated here: a token
\* with no time part does not parse, and a token YYYY-MM-DDTHH:MM:SSZ parses
\* when its fields are in range.  The value is held as its date and its time.
datetime_from_str(s) ==
    IF /\ Len(s) = 20
       /\ <<s[5], s[8], s[11], s[14], s[17], s[20]>>
                = <<"-", "-", "T", ":", ":", "Z">>
       /\ IsDigits(SubSeq(s, 1, 4) \o SubSeq(s, 6, 7) \o SubSeq(s, 9, 10)
                    \o SubSeq(s, 12, 13) \o SubSeq(s, 15, 16)
                    \o SubSeq(s, 18, 19))
    THEN LET year == Number(SubSeq(s, 1, 4))
             month == Number(SubSeq(s, 6, 7))
             day == Number(SubSeq(s, 9, 10))
         IN IF /\ month \in 1..12
               /\ day \in 1..DaysIn(year, month)
               /\ Number(SubSeq(s, 12, 13)) <= 23
               /\ Number(SubSeq(s, 15, 16)) <= 59
               /\ Number(SubSeq(s, 18, 19)) <= 59
            THEN Some([date |-> SubSeq(s, 1, 10), time |-> SubSeq(s, 12, 19)])
            ELSE None
    ELSE None

\* DateTime<Utc>::to_rfc3339
to_rfc3339(v) == v.date \o <<"T">> \o v.time \o <<"+", "0", "0", ":", "0", "0">>

\* <T as FromStr>::from_str: None when the token does not parse.  An integer
\* is held as its sign and its magnitude in decimal digits.
from_str(T, s) ==
    IF T = "String" THEN Some(s)
    ELSE IF T = "DateTime" THEN datetime_from_str(s)
    ELSE IF s = <<>> THEN None
    ELSE LET signed == s[1] = "+" \/ (s[1] = "-" /\ T = "i32")
             digits == IF signed THEN Tail(s) ELSE s
             neg == s[1] = "-"
         IN IF digits = <<>> \/ \E i \in 1..Len(digits) : digits[i] \notin DigitChars
            THEN None
            ELSE LET m == StripZeros(digits)
                 IN IF MagnitudeLeq(m, MaxMagnitude(T, neg))
                    THEN Some([neg |-> neg /\ m # <<"0">>, mag |-> m])
                    ELSE None

\* the converter a handler is built with: <T as ToString>::to_string, and
\* DateTime<Utc>::to_rfc3339 for the handlers of a DateTime
to_string(T, v) ==
    IF T = "String" THEN v
    ELSE IF T = "DateTime" THEN to_rfc3339(v)
    ELSE IF v.neg THEN <<"-">> \o v.mag ELSE v.mag

\* std::any::type_name::<T>()
type_name(T) ==
    CASE T = "i32" -> <<"i", "3", "2">>
      [] T = "u32" -> <<"u", "3", "2">>
      [] T = "DateTime" ->
              <<"c", "h", "r", "o", "n", "o", ":", ":", "d", "a",
                "t", "e", "t", "i", "m", "e", ":", ":", "D", "a",
                "t", "e", "T", "i", "m", "e", "<", "c", "h", "r",
                "o", "n", "o", ":", ":", "o", "f", "f", "s", "e",
                "t", ":", ":", "u", "t", "c", ":", ":", "U", "t",
                "c", ">">>
      [] OTHER -> <<"a", "l", "l", "o", "c", ":", ":", "s", "t", "r", "i",
                    "n", "g", ":", ":", "S", "t", "r", "i", "n", "g">>

----------------------------------------------------------------------------
(* Escape handlers and FieldConfig *)

\* an EscapeHandler value: the factory that built the closure and its T
Handler(factory, T) == [factory |-> factory, T |-> T]

\* the quoted factory with the quote doubling left out
escape_quoted_with_converter_no_doubling(T, inp, cfg) ==
    LET value == from_str(T, inp)
    IN IF value = None
       THEN Err(InvalidValue(cfg.field, unwrap_or(cfg.type_name, type_name(T))))
       ELSE Ok(<<Quote>> \o to_string(T, value[1]) \o <<Quote>>)

\* the quoted factory doubling all quotes but one at the start of the value
escape_quoted_with_converter_skip_first(T, inp, cfg) ==
    LET value == from_str(T, inp)
    IN IF value = None
       THEN Err(InvalidValue(cfg.field, unwrap_or(cfg.type_name, type_name(T))))
       ELSE LET str == to_string(T, value[1])
            IN Ok(<<Quote>>
                  \o (IF str = <<>> THEN <<>>
                      ELSE <<Head(str)>> \o replace(Tail(str), Quote,
                              <<Quote, Quote>>))
                  \o <<Quote>>)

escape_quoted_with_converter(T, inp, cfg) ==
    LET value == from_str(T, inp)
    IN IF value = None
       THEN Err(InvalidValue(cfg.field, unwrap_or(cfg.type_name, type_name(T))))
       ELSE Ok(<<Quote>> \o replace(to_string(T, value[1]), Quote, <<Quote,
               Quote>>)
                 \o <<Quote>>)

\* the unquoted factory naming the primitive type whatever the config declares
escape_unquoted_with_converter_primitive_label(T, inp, cfg) ==
    LET value == from_str(T, inp)
    IN IF value = None
       THEN Err(InvalidValue(cfg.field, type_name(T)))
       ELSE Ok(to_string(T, value[1]))

\* the unquoted factory handing back the token it has parsed
escape_unquoted_with_converter_raw_token(T, inp, cfg) ==
    LET value == from_str(T, inp)
    IN IF value = None
       THEN Err(InvalidValue(cfg.field, unwrap_or(cfg.type_name, type_name(T))))
       ELSE Ok(inp)

escape_unquoted_with_converter(T, inp, cfg) ==
    LET value == from_str(T, inp)
    IN IF value = None
       THEN Err(InvalidValue(cfg.field, unwrap_or(cfg.type_name, type_name(T))))
       ELSE Ok(to_string(T, value[1]))

escape_quoted(T) == Handler("quoted", T)
escape_unquoted(T) == Handler("unquoted", T)

call_handler(h, inp, cfg) ==
    IF h.factory = "quoted"
    THEN escape_quoted_with_converter(h.T, inp, cfg)
    ELSE escape_unquoted_with_converter(h.T, inp, cfg)

FieldConfig_new(name) ==
    [field |-> name, rename |-> None, type_name |-> None, wildcard |-> FALSE,
     partial_order |-> FALSE, partial_equal |-> FALSE, use_like |-> FALSE,
     escape_handler |-> None]

FieldConfig_escape(cfg, inp) ==
    call_handler(unwrap_or(cfg.escape_handler, escape_quoted("String")), inp,
            cfg)

----------------------------------------------------------------------------
(* The Query tree (crate::query), as generator.rs matches on it *)

Or(queries) == [type |-> "Or", queries |-> queries]
And(queries) == [type |-> "And", queries |-> queries]
Not(q) == [type |-> "Not", query |-> q]
Equal(f, value) == [type |-> "Equal", field |-> f, value |-> value]
Order(f, operator, value) ==
    [type |-> "Order", field |-> f, operator |-> operator, value |-> value]

OrderOperator == {"Lte", "Gte", "Lt", "Gt"}

----------------------------------------------------------------------------
(* QueryConfig *)

\* a lookup that takes the first entry whatever its name
get_any_name(fs, name) == IF fs = <<>> THEN None ELSE Some(fs[1])

\* HashMap::get
get(fs, name) ==
    LET at == {i \in 1..Len(fs) : fs[i].field = name}
    IN IF at = {} THEN None ELSE Some(fs[CHOOSE i \in at : TRUE])

\* an insert that keeps the entry a name already has
inserted_first_wins(fs, cfg) ==
    IF \E k \in 1..Len(fs) : fs[k].field = cfg.field
    THEN {fs[i] : i \in 1..Len(fs)}
    ELSE {fs[i] : i \in 1..Len(fs)} \cup {cfg}

\* the entries of the map after HashMap::insert
inserted(fs, cfg) ==
    {fs[i] : i \in {k \in 1..Len(fs) : fs[k].field # cfg.field}} \cup {cfg}

\* every order in which a map may iterate over a set of entries
Orders(entries) ==
    {o \in [1..Cardinality(entries) -> entries] :
        \A i, j \in 1..Cardinality(entries) : o[i] = o[j] => i = j}

STR_TRUE == <<"T", "R", "U", "E">>
STR_FALSE == <<"F", "A", "L", "S", "E">>
STR_OR == <<" ", "O", "R", " ">>
STR_AND == <<" ", "A", "N", "D", " ">>
STR_NOT == <<"N", "O", "T", " ">>
STR_EQ == <<" ", "=", " ">>
STR_ILIKE == <<" ", "I", "L", "I", "K", "E", " ", "'", "%", "'", " ", "|",
        "|", " ">>
STR_ESCAPE == <<" ", "|", "|", " ", "'", "%", "'", " ", "E", "S", "C", "A",
        "P", "E", " ", "'", "^", "'">>
STR_equal == <<"e", "q", "u", "a", "l">>
STR_order == <<"o", "r", "d", "e", "r">>

operator_str(operator) ==
    CASE operator = "Lte" -> <<"<", "=">>
      [] operator = "Gte" -> <<">", "=">>
      [] operator = "Lt" -> <<"<">>
      [] operator = "Gt" -> <<">">>

\* the three replace calls with the escape character replaced last
like_escape_caret_last(value) ==
    replace(replace(replace(value, "%", <<"^", "%">>), "_", <<"^", "_">>),
            "^", <<"^", "^">>)

\* the three replace calls in front of the ILIKE pattern
like_escape(value) ==
    replace(replace(replace(value, "^", <<"^", "^">>), "%", <<"^", "%">>),
            "_", <<"^", "_">>)

\* the predicate of an Equal comparison on one field, or the escape error
equal_predicate(cfg, name, value) ==
    LET escaped == FieldConfig_escape(cfg, value)
        rename == unwrap_or(cfg.rename, name)
    IN IF ~is_ok(escaped) THEN escaped
       ELSE IF cfg.use_like
            THEN Ok(rename \o STR_ILIKE \o like_escape(escaped.value)
                    \o STR_ESCAPE)
            ELSE Ok(rename \o STR_EQ \o escaped.value)

\* the Order predicate that names the field even when it is renamed
order_predicate_ignoring_rename(cfg, name, operator, value) ==
    LET escaped == FieldConfig_escape(cfg, value)
    IN IF ~is_ok(escaped) THEN escaped
       ELSE Ok(name \o <<" ">> \o operator_str(operator) \o <<" ">>
               \o escaped.value)

\* the Order predicate that matches a substring on a field flagged use_like
order_predicate_substring(cfg, name, operator, value) ==
    IF cfg.use_like THEN equal_predicate(cfg, name, value)
    ELSE LET escaped == FieldConfig_escape(cfg, value)
             rename == unwrap_or(cfg.rename, name)
         IN IF ~is_ok(escaped) THEN escaped
            ELSE Ok(rename \o <<" ">> \o operator_str(operator) \o <<" ">>
                    \o escaped.value)

\* the predicate of an Order comparison on one field, or the escape error
order_predicate(cfg, name, operator, value) ==
    LET escaped == FieldConfig_escape(cfg, value)
        rename == unwrap_or(cfg.rename, name)
    IN IF ~is_ok(escaped) THEN escaped
       ELSE Ok(rename \o <<" ">> \o operator_str(operator) \o <<" ">>
               \o escaped.value)

\* .filter_map(Result::ok).collect(): the Ok values, in order
RECURSIVE collect_ok(_)
collect_ok(rs) ==
    IF rs = <<>> THEN <<>>
    ELSE (IF is_ok(Head(rs)) THEN <<Head(rs).value>> ELSE <<>>)
            \o collect_ok(Tail(rs))

\* a collect that goes through every result and keeps the last Err
collect_result_last_error(rs) ==
    LET bad == {i \in 1..Len(rs) : ~is_ok(rs[i])}
    IN IF bad # {} THEN rs[CHOOSE i \in bad : \A j \in bad : i >= j]
       ELSE Ok([i \in 1..Len(rs) |-> rs[i].value])

\* .collect::<Result<Vec<_>>>(): the first Err, or all the values
collect_result(rs) ==
    LET bad == {i \in 1..Len(rs) : ~is_ok(rs[i])}
    IN IF bad # {} THEN rs[CHOOSE i \in bad : \A j \in bad : i <= j]
       ELSE Ok([i \in 1..Len(rs) |-> rs[i].value])

\* a result left without its parentheses
paren_omitted(r) == r

paren(r) == IF is_ok(r) THEN Ok(<<"(">> \o r.value \o <<")">>) ELSE r

\* the targeted comparison with the two capability flags exchanged
compare_field_flags_swapped(fs, q) ==
    LET found == get(fs, q.field[1])
        capable == IF q.type = "Equal" THEN found[1].partial_order
                   ELSE found[1].partial_equal
    IN IF found = None THEN Err(UnknownField(q.field[1]))
       ELSE IF capable = FALSE
            THEN Err(UnsupportedOperation(q.field[1],
                        IF q.type = "Equal" THEN STR_equal ELSE STR_order))
       ELSE IF q.type = "Equal" THEN equal_predicate(found[1], q.field[1],
               q.value)
       ELSE order_predicate(found[1], q.field[1], q.operator, q.value)

\* the targeted comparison that escapes the value before it looks at the
\* capability flag
compare_field_escape_first(fs, q) ==
    LET found == get(fs, q.field[1])
        capable == IF q.type = "Equal" THEN found[1].partial_equal
                   ELSE found[1].partial_order
    IN IF found = None THEN Err(UnknownField(q.field[1]))
       ELSE IF ~is_ok(FieldConfig_escape(found[1], q.value))
            THEN FieldConfig_escape(found[1], q.value)
       ELSE IF capable = FALSE
            THEN Err(UnsupportedOperation(q.field[1],
                        IF q.type = "Equal" THEN STR_equal ELSE STR_order))
       ELSE IF q.type = "Equal" THEN equal_predicate(found[1], q.field[1],
               q.value)
       ELSE order_predicate(found[1], q.field[1], q.operator, q.value)

\* Equal / Order with Some(field)
compare_field(fs, q) ==
    LET found == get(fs, q.field[1])
        capable == IF q.type = "Equal" THEN found[1].partial_equal
                   ELSE found[1].partial_order
    IN IF found = None THEN Err(UnknownField(q.field[1]))
       ELSE IF capable = FALSE
            THEN Err(UnsupportedOperation(q.field[1],
                        IF q.type = "Equal" THEN STR_equal ELSE STR_order))
       ELSE IF q.type = "Equal" THEN equal_predicate(found[1], q.field[1],
               q.value)
       ELSE order_predicate(found[1], q.field[1], q.operator, q.value)

\* the per-field results of a wildcard comparison over the candidates
wildcard_results(candidates, q) ==
    [i \in 1..Len(candidates) |->
        IF q.type = "Equal"
        THEN equal_predicate(candidates[i], candidates[i].field, q.value)
        ELSE order_predicate(candidates[i], candidates[i].field, q.operator,
                q.value)]

\* the wildcard comparison failing on the first value a candidate rejects
compare_wildcard_propagating(fs, q) ==
    LET candidates ==
            IF q.type = "Equal"
            THEN SelectSeq(fs, LAMBDA x : x.wildcard /\ x.partial_equal)
            ELSE SelectSeq(fs, LAMBDA x : x.wildcard /\ x.partial_order)
        queries == collect_result(wildcard_results(candidates, q))
    IN IF ~is_ok(queries) THEN queries
       ELSE IF queries.value = <<>>
       THEN Err(EmptyWildcardOperation(
                    IF q.type = "Equal" THEN STR_equal ELSE STR_order))
       ELSE Ok(join(queries.value, STR_OR))

\* the wildcard comparison taking every wildcard field as an Order candidate
compare_wildcard_order_unfiltered(fs, q) ==
    LET candidates ==
            IF q.type = "Equal"
            THEN SelectSeq(fs, LAMBDA x : x.wildcard /\ x.partial_equal)
            ELSE SelectSeq(fs, LAMBDA x : x.wildcard)
        queries == collect_ok(wildcard_results(candidates, q))
    IN IF queries = <<>>
       THEN Err(EmptyWildcardOperation(
                    IF q.type = "Equal" THEN STR_equal ELSE STR_order))
       ELSE Ok(join(queries, STR_OR))

\* the wildcard comparison without the check for an empty result
compare_wildcard_unchecked(fs, q) ==
    LET candidates ==
            IF q.type = "Equal"
            THEN SelectSeq(fs, LAMBDA x : x.wildcard /\ x.partial_equal)
            ELSE SelectSeq(fs, LAMBDA x : x.wildcard /\ x.partial_order)
    IN Ok(join(collect_ok(wildcard_results(candidates, q)), STR_OR))

\* Equal / Order with no field: every wildcard field with the capability
compare_wildcard(fs, q) ==
    LET candidates ==
            IF q.type = "Equal"
            THEN SelectSeq(fs, LAMBDA x : x.wildcard /\ x.partial_equal)
            ELSE SelectSeq(fs, LAMBDA x : x.wildcard /\ x.partial_order)
        queries == collect_ok(wildcard_results(candidates, q))
    IN IF queries = <<>>
       THEN Err(EmptyWildcardOperation(
                    IF q.type = "Equal" THEN STR_equal ELSE STR_order))
       ELSE Ok(join(queries, STR_OR))

\* Or joining its terms with the separator of And
or_terms_and_separator(rs) ==
    IF rs = <<>> THEN Ok(STR_TRUE)
    ELSE LET all == collect_result(rs)
         IN IF is_ok(all) THEN Ok(join(all.value, STR_AND)) ELSE all

\* Or taking an empty sequence of terms for the false predicate
or_terms_empty_false(rs) ==
    IF rs = <<>> THEN Ok(STR_FALSE)
    ELSE LET all == collect_result(rs)
         IN IF is_ok(all) THEN Ok(join(all.value, STR_OR)) ELSE all

or_terms(rs) ==
    IF rs = <<>> THEN Ok(STR_TRUE)
    ELSE LET all == collect_result(rs)
         IN IF is_ok(all) THEN Ok(join(all.value, STR_OR)) ELSE all

\* And joining its terms with the separator of Or
and_terms_or_separator(rs) ==
    IF rs = <<>> THEN Ok(STR_FALSE)
    ELSE LET all == collect_result(rs)
         IN IF is_ok(all) THEN Ok(join(all.value, STR_OR)) ELSE all

and_terms(rs) ==
    IF rs = <<>> THEN Ok(STR_FALSE)
    ELSE LET all == collect_result(rs)
         IN IF is_ok(all) THEN Ok(join(all.value, STR_AND)) ELSE all

not_term(r) == IF is_ok(r) THEN Ok(STR_NOT \o r.value) ELSE r

RECURSIVE query_to_postgres(_, _)
query_to_postgres(fs, q) ==
    CASE q.type = "Or" ->
            paren(or_terms([i \in 1..Len(q.queries) |->
                                query_to_postgres(fs, q.queries[i])]))
      [] q.type = "And" ->
            paren(and_terms([i \in 1..Len(q.queries) |->
                                query_to_postgres(fs, q.queries[i])]))
      [] q.type = "Not" -> paren(not_term(query_to_postgres(fs, q.query)))
      [] q.type \in {"Equal", "Order"} ->
            IF q.field # None THEN paren(compare_field(fs, q))
            ELSE paren(compare_wildcard(fs, q))

----------------------------------------------------------------------------
(* The parser (crate::query::parse), after the grammar of the              *)
(* specification: a disjunction of conjunctions of atoms over unquoted     *)
(* tokens.  Quoted value tokens are not part of this model.                *)

IsSpace(c) == c \in {" ", "\n", "\t"}
Delimiters == {"(", ")", ":", "<", ">"}
Keywords == {<<"a", "n", "d">>, <<"n", "o", "t">>}

RECURSIVE skip_space(_, _)
\* the first position from i on that holds no whitespace
skip_space(s, i) ==
    IF i <= Len(s) /\ IsSpace(s[i]) THEN skip_space(s, i + 1) ELSE i

RECURSIVE token_end(_, _)
\* the position after the unquoted token that starts at i
token_end(s, i) ==
    IF i <= Len(s) /\ ~IsSpace(s[i]) /\ s[i] \notin Delimiters
    THEN token_end(s, i + 1) ELSE i

starts_with(s, i, lit) ==
    i + Len(lit) - 1 <= Len(s) /\ SubSeq(s, i, i + Len(lit) - 1) = lit

Parsed(q, pos) == [ok |-> TRUE, query |-> q, pos |-> pos]
Stalled(pos) == [ok |-> FALSE, pos |-> pos]

parse_operator(s, i) ==
    CASE starts_with(s, i, <<"<", "=">>) -> Parsed("Lte", i + 2)
      [] starts_with(s, i, <<">", "=">>) -> Parsed("Gte", i + 2)
      [] starts_with(s, i, <<"<">>) -> Parsed("Lt", i + 1)
      [] starts_with(s, i, <<">">>) -> Parsed("Gt", i + 1)
      [] starts_with(s, i, <<":">>) -> Parsed("Equal", i + 1)
      [] OTHER -> Stalled(i)

\* the one element of a set of one element
The(set) == CHOOSE x \in set : TRUE

\* field operator value, * operator value, or a bare value
parse_comparison(s, i) ==
    LET e == token_end(s, i)
        word == SubSeq(s, i, e - 1)
        f == IF word = <<"*">> THEN None ELSE Some(word)
    IN IF word = <<>> \/ word \in Keywords THEN Stalled(i)
       ELSE The({
            IF ~operator.ok THEN Parsed(Equal(None, word), e)
            ELSE LET k == skip_space(s, operator.pos)
                     value == SubSeq(s, k, token_end(s, k) - 1)
                 IN IF value = <<>> THEN Stalled(k)
                    ELSE IF operator.query = "Equal"
                    THEN Parsed(Equal(f, value), token_end(s, k))
                    ELSE Parsed(Order(f, operator.query, value), token_end(s, k))
            : operator \in {parse_operator(s, skip_space(s, e))}})

RECURSIVE parse_atom(_, _)
RECURSIVE parse_conjunction(_, _)
RECURSIVE parse_disjunction(_, _)
RECURSIVE conjunction_tail(_, _, _)
RECURSIVE disjunction_tail(_, _, _)

\* a parenthesized disjunction, a negated atom, or a comparison
parse_atom(s, i) ==
    IF starts_with(s, i, <<"(">>)
    THEN The({
            IF ~inner.ok THEN inner
            ELSE LET close == skip_space(s, inner.pos)
                 IN IF starts_with(s, close, <<")">>)
                    THEN Parsed(inner.query, close + 1)
                    ELSE Stalled(close)
            : inner \in {parse_disjunction(s, skip_space(s, i + 1))}})
    ELSE LET e == token_end(s, i)
         IN IF SubSeq(s, i, e - 1) = <<"n", "o", "t">> /\ skip_space(s, e) > e
            THEN The({IF term.ok THEN Parsed(Not(term.query), term.pos) ELSE term
                        : term \in {parse_atom(s, skip_space(s, e))}})
            ELSE parse_comparison(s, i)

\* the atoms that follow in a chain, each after whitespace, "and", whitespace
conjunction_tail(s, i, atoms) ==
    LET j == skip_space(s, i)
        e == token_end(s, j)
        k == skip_space(s, e)
    IN IF j > i /\ SubSeq(s, j, e - 1) = <<"a", "n", "d">> /\ k > e
       THEN The({
            IF next.ok
            THEN The({conjunction_tail(s, pos, more)
                        : pos \in {next.pos}, more \in {Append(atoms, next.query)}})
            ELSE Parsed(atoms, i)
            : next \in {parse_atom(s, k)}})
       ELSE Parsed(atoms, i)

\* an atom, or the And of a chain of atoms joined by "and"
parse_conjunction(s, i) ==
    The({
        IF ~first.ok THEN first
        ELSE The({
            Parsed(IF Len(chain.query) = 1 THEN chain.query[1]
                   ELSE And(chain.query), chain.pos)
            : chain \in {conjunction_tail(s, first.pos, <<first.query>>)}})
        : first \in {parse_atom(s, i)}})

\* the conjunctions that follow, each after whitespace
disjunction_tail(s, i, conjunctions) ==
    LET j == skip_space(s, i)
    IN IF j > i
       THEN The({
            IF next.ok
            THEN The({disjunction_tail(s, pos, more)
                        : pos \in {next.pos},
                          more \in {Append(conjunctions, next.query)}})
            ELSE Parsed(conjunctions, i)
            : next \in {parse_conjunction(s, j)}})
       ELSE Parsed(conjunctions, i)

\* a conjunction, or the Or of adjacent conjunctions
parse_disjunction(s, i) ==
    The({
        IF ~first.ok THEN first
        ELSE The({
            Parsed(IF Len(all.query) = 1 THEN all.query[1] ELSE Or(all.query),
                   all.pos)
            : all \in {disjunction_tail(s, first.pos, <<first.query>>)}})
        : first \in {parse_conjunction(s, i)}})

\* the nom result of parse: Ok((rest, Option<Query>)) or Err(Error((rest, _)))
parse(s) ==
    LET start == skip_space(s, 1)
    IN IF start > Len(s) THEN [tag |-> "Ok", rest |-> <<>>, query |-> None]
       ELSE The({
            IF ~whole.ok
            THEN [tag |-> "Error", rest |-> SubSeq(s, whole.pos, Len(s))]
            ELSE LET end == skip_space(s, whole.pos)
                 IN IF end <= Len(s)
                    THEN [tag |-> "Error", rest |-> SubSeq(s, end, Len(s))]
                    ELSE [tag |-> "Ok", rest |-> <<>>, query |-> Some(whole.query)]
            : whole \in {parse_disjunction(s, start)}})

\* what nom may report for an input: the result of parse, and Incomplete as
\* well where parsing stalled at the very end of the input
parse_outcomes(s) ==
    The({IF parsed.tag = "Error" /\ parsed.rest = <<>>
         THEN {parsed, [tag |-> "Incomplete"]} ELSE {parsed}
            : parsed \in {parse(s)}})

\* parse_to_postgres compiling an empty Or where parse found no query
compile_parsed_empty_or(fs, inp, parsed) ==
    CASE parsed.tag = "Incomplete" -> Err(ParseError(Len(inp)))
      [] parsed.tag = "Error" -> Err(ParseError(Len(inp) - Len(parsed.rest)))
      [] OTHER ->
            The({IF is_ok(compiled) THEN Ok(Some(compiled.value)) ELSE compiled
                    : compiled \in {query_to_postgres(fs,
                            unwrap_or(parsed.query, Or(<<>>)))}})

\* parse_to_postgres reporting the length of the remainder as the position
compile_parsed_remainder_length(fs, inp, parsed) ==
    CASE parsed.tag = "Incomplete" -> Err(ParseError(Len(inp)))
      [] parsed.tag = "Error" -> Err(ParseError(Len(parsed.rest)))
      [] OTHER ->
            IF parsed.query = None THEN Ok(None)
            ELSE The({IF is_ok(compiled) THEN Ok(Some(compiled.value)) ELSE compiled
                        : compiled \in {query_to_postgres(fs, parsed.query[1])}})

\* the Result that parse_to_postgres makes of a nom result
compile_parsed(fs, inp, parsed) ==
    CASE parsed.tag = "Incomplete" -> Err(ParseError(Len(inp)))
      [] parsed.tag = "Error" -> Err(ParseError(Len(inp) - Len(parsed.rest)))
      [] OTHER ->
            IF parsed.query = None THEN Ok(None)
            ELSE The({IF is_ok(compiled) THEN Ok(Some(compiled.value)) ELSE compiled
                        : compiled \in {query_to_postgres(fs, parsed.query[1])}})

\* QueryConfig::parse_to_postgres
parse_to_postgres(fs, inp) ==
    The({compile_parsed(fs, inp, parsed) : parsed \in {parse(inp)}})

----------------------------------------------------------------------------
(* The user queries and handlers of cashier-server.  A role is known by its *)
(* name; table role is not written by any of these handlers.               *)

RoleTable ==
    {[name |-> "admin", deleted |-> FALSE],
     [name |-> "staff", deleted |-> FALSE],
     [name |-> "old", deleted |-> TRUE]}

RoleNames == {r.name : r \in RoleTable}

PermissionDenied == [kind |-> "PermissionDenied"]
MissingAuthorizationHeader == [kind |-> "MissingAuthorizationHeader"]
AttemptToElevateRole(roles) == [kind |-> "AttemptToElevateRole", roles |-> roles]
DuplicatedUser(f) == [kind |-> "DuplicatedUser", field |-> f]
InternalServerError == [kind |-> "InternalServerError"]

UserCreated(id, username, roles) ==
    [type |-> "UserCreated", id |-> id, username |-> username, roles |-> roles]

\* bcrypt::hash and bcrypt::verify: a hash verifies the password it was
\* made from and no other
bcrypt_hash(password) == <<"bcrypt", password>>
bcrypt_verify(password, hash) == hash = bcrypt_hash(password)

\* a row of table "user" as the insert statements leave it
user_row(username, password, email) ==
    [username |-> username, password |-> password, email |-> email,
     avatar |-> None, avatar128 |-> None, deleted |-> FALSE]

UserNotFound == [kind |-> "UserNotFound"]
AvatarError == [kind |-> "AvatarError"]

\* the UserUpdated message of the avatar handlers
UserUpdated_avatars(id, avatar, avatar128) ==
    [type |-> "UserUpdated", id |-> id, avatar |-> Some(avatar),
     avatar128 |-> Some(avatar128)]

\* a file of the avatar folder: the random part of its name, and whether it
\* is the cropped original or the 128x128 thumbnail
origin_filename(filename) == [filename |-> filename, thumbnail |-> FALSE]
thumbnail_filename(filename) == [filename |-> filename, thumbnail |-> TRUE]

\* the names a pair (avatar, avatar128) of Options holds
avatar_files(avatar, avatar128) ==
    {avatar[i] : i \in 1..Len(avatar)} \cup {avatar128[i] : i \in 1..Len(avatar128)}

\* Query::fetch_avatars: the avatar columns of the user that is not deleted
fetch_avatars(users, id) ==
    IF id \in 1..Len(users) /\ ~users[id].deleted
    THEN Ok([avatar |-> users[id].avatar, avatar128 |-> users[id].avatar128])
    ELSE Err(UserNotFound)

\* Query::update_avatars: the table after the statement, or UserNotFound
\* when the statement returns no row
update_avatars(users, id, avatar, avatar128) ==
    IF id \in 1..Len(users) /\ ~users[id].deleted
    THEN Ok([users EXCEPT ![id].avatar = avatar, ![id].avatar128 = avatar128])
    ELSE Err(UserNotFound)

\* the files removed when the update of an upload failed
remove_new_avatars_origin_only(folder, avatar, avatar128) == folder \ {avatar}

\* remove_avatar_file on the new avatar and, when there is one, on the new
\* thumbnail
remove_new_avatars(folder, avatar, avatar128) ==
    folder \ avatar_files(Some(avatar), avatar128)

\* remove_avatar_file on the avatars fetched at the start of the handler
remove_old_avatars(folder, old_avatars) ==
    folder \ avatar_files(old_avatars.avatar, old_avatars.avatar128)

RECURSIVE dedup(_)
\* Vec::dedup: of neighbours that are equal only the first is kept
dedup(v) ==
    IF Len(v) <= 1 THEN v
    ELSE IF v[1] = v[2] THEN dedup(Tail(v))
    ELSE <<v[1]>> \o dedup(Tail(v))

\* the names the check_extra_roles statement subtracts: the roles of the
\* user that are not deleted
held_roles(ur, uid) ==
    {r.name : r \in {x \in RoleTable :
                        /\ [user |-> uid, role |-> x.name] \in ur
                        /\ ~x.deleted}}

\* the check_extra_roles statement counting a deleted role of the user too
check_extra_roles_counting_deleted(ur, uid, roles) ==
    Orders({roles[i] : i \in 1..Len(roles)}
            \ {x.role : x \in {y \in ur : y.user = uid}})

\* Query::check_extra_roles: the rows of UNNEST($1) EXCEPT the names held,
\* as the Vecs the rows may arrive as (EXCEPT returns each row once, in no
\* given order)
check_extra_roles(ur, uid, roles) ==
    Orders({roles[i] : i \in 1..Len(roles)} \ held_roles(ur, uid))

\* the insert_one_roles statement: one row per element of roles that names a
\* role which is not deleted
insert_one_roles(id, roles) ==
    {[user |-> id, role |-> roles[i]] :
        i \in {k \in 1..Len(roles) :
                \E r \in RoleTable : r.name = roles[k] /\ ~r.deleted}}

\* the statement inserts the same row twice
repeats_row(roles) ==
    \E i, j \in 1..Len(roles) :
        /\ i # j
        /\ roles[i] = roles[j]
        /\ \E r \in RoleTable : r.name = roles[i] /\ ~r.deleted

UserRegistrationNotFound == [kind |-> "UserRegistrationNotFound"]
UserRegistrationExpired == [kind |-> "UserRegistrationExpired"]
UserRegistrationWrongCode == [kind |-> "UserRegistrationWrongCode"]
UserEmailUpdatingNotFound == [kind |-> "UserEmailUpdatingNotFound"]
UserEmailUpdatingExpired == [kind |-> "UserEmailUpdatingExpired"]
UserEmailUpdatingWrongCode == [kind |-> "UserEmailUpdatingWrongCode"]
PermissionDeniedFor(subject, action) ==
    [kind |-> "PermissionDenied", subject |-> subject, action |-> action]

\* the UserUpdated message of update_user and confirm_email_updating
UserUpdated_fields(id, username, email) ==
    [type |-> "UserUpdated", id |-> id, username |-> username,
     email |-> email]

\* the find_default_roles statement: the names of the roles that are default
\* and not deleted
DefaultRoles == {"staff"}

\* the rows the statements find_one_from_username_..., find_one_from_email_...
\* choose their one row from: the users that are not deleted and have the
\* username or, when one is given, the email
rows_by_username_or_email(users, username, email) ==
    {i \in 1..Len(users) :
        /\ ~users[i].deleted
        /\ \/ username # None /\ users[i].username = username[1]
           \/ email # None /\ users[i].email = email}

\* what a query that ran in a transaction leaves: its result and the tables
Outcome(res, users, roles, registrations, updatings) ==
    [result |-> res, user_table |-> users, user_role |-> roles,
     user_registration |-> registrations, user_email_updating |-> updatings]

\* confirm_registration that does not mark the registration completed
confirm_registration_not_completing(users, roles, registrations, id, code) ==
    LET rows == {r \in registrations : r.id = id /\ r.completed = None}
        failed(e) == {Outcome(Err(e), users, roles, registrations, {})}
    IN IF rows = {} THEN failed(UserRegistrationNotFound)
       ELSE LET row == CHOOSE r \in rows : TRUE
                duplicated_rows == rows_by_username_or_email(users,
                                        Some(row.username), Some(row.email))
                user_id == Len(users) + 1
            IN IF row.expired THEN failed(UserRegistrationExpired)
               ELSE IF row.code # code THEN failed(UserRegistrationWrongCode)
               ELSE IF duplicated_rows # {}
               THEN UNION {failed(DuplicatedUser(
                                IF users[i].username = row.username
                                THEN "username" ELSE "email")) :
                            i \in duplicated_rows}
               ELSE {Outcome(Ok([id |-> user_id, username |-> row.username,
                                 roles |-> default_roles,
                                 email |-> Some(row.email)]),
                             Append(users, user_row(row.username, row.password,
                                                    Some(row.email))),
                             roles \cup insert_one_roles(user_id, default_roles),
                             registrations, {}) :
                        default_roles \in Orders(DefaultRoles)}

\* Query::confirm_registration: one transaction; an error leaves the tables
\* as they were
confirm_registration(users, roles, registrations, id, code) ==
    LET rows == {r \in registrations : r.id = id /\ r.completed = None}
        failed(e) == {Outcome(Err(e), users, roles, registrations, {})}
    IN IF rows = {} THEN failed(UserRegistrationNotFound)
       ELSE LET row == CHOOSE r \in rows : TRUE
                duplicated_rows == rows_by_username_or_email(users,
                                        Some(row.username), Some(row.email))
                user_id == Len(users) + 1
            IN IF row.expired THEN failed(UserRegistrationExpired)
               ELSE IF row.code # code THEN failed(UserRegistrationWrongCode)
               ELSE IF duplicated_rows # {}
               THEN UNION {failed(DuplicatedUser(
                                IF users[i].username = row.username
                                THEN "username" ELSE "email")) :
                            i \in duplicated_rows}
               ELSE {Outcome(Ok([id |-> user_id, username |-> row.username,
                                 roles |-> default_roles,
                                 email |-> Some(row.email)]),
                             Append(users, user_row(row.username, row.password,
                                                    Some(row.email))),
                             roles \cup insert_one_roles(user_id, default_roles),
                             (registrations \ {row})
                                \cup {[row EXCEPT !.completed = Some(TRUE)]},
                             {}) :
                        default_roles \in Orders(DefaultRoles)}

\* update_user that looks for the new email only among the other columns
update_user_unchecked_email(users, id, username, email) ==
    IF username # None
            /\ rows_by_username_or_email(users, username, None) # {}
    THEN Err(DuplicatedUser("username"))
    ELSE IF id \in 1..Len(users) /\ ~users[id].deleted
    THEN Ok([users EXCEPT
                ![id].username = IF username # None THEN username[1] ELSE @,
                ![id].email = IF email # None THEN email[1] ELSE @])
    ELSE Err(UserNotFound)

\* Query::update_user (username and email; nickname and blocked are columns
\* no other statement reads): the table after the transaction, or the error
update_user(users, id, username, email) ==
    IF username # None
            /\ rows_by_username_or_email(users, username, None) # {}
    THEN Err(DuplicatedUser("username"))
    ELSE IF email # None /\ email[1] # None
            /\ rows_by_username_or_email(users, None, email[1]) # {}
    THEN Err(DuplicatedUser("email"))
    ELSE IF id \in 1..Len(users) /\ ~users[id].deleted
    THEN Ok([users EXCEPT
                ![id].username = IF username # None THEN username[1] ELSE @,
                ![id].email = IF email # None THEN email[1] ELSE @])
    ELSE Err(UserNotFound)

WrongPassword == [kind |-> "WrongPassword"]
WrongUserOrPassword == [kind |-> "WrongUserOrPassword"]

\* the UserUpdated message of update_password_impl
UserUpdated_password(id) == [type |-> "UserUpdated", id |-> id, password |-> Some(<<>>)]

TokenRevoked(jti, uid) == [type |-> "TokenRevoked", jti |-> jti, uid |-> uid]

\* the find_one_to_password and update_password statements find the user
\* that has the id and is not deleted
live_user(users, id) == id \in 1..Len(users) /\ ~users[id].deleted

\* update_password that stores the new password without the old one being
\* verified
update_password_unverified(users, id, password, old_password) ==
    IF ~live_user(users, id) THEN Err(UserNotFound)
    ELSE Ok([users EXCEPT ![id].password = bcrypt_hash(password)])

\* Query::update_password: the table after the transaction, or the error
update_password(users, id, password, old_password) ==
    IF ~live_user(users, id) THEN Err(UserNotFound)
    ELSE IF /\ old_password # None
            /\ ~bcrypt_verify(old_password[1], users[id].password)
    THEN Err(WrongPassword)
    ELSE Ok([users EXCEPT ![id].password = bcrypt_hash(password)])

\* the error update_password_impl answers for an error of the query
password_error(err) ==
    IF err = UserNotFound THEN UserNotFound
    ELSE IF err = WrongPassword THEN WrongUserOrPassword
    ELSE InternalServerError

\* query.token.revoke_tokens_from_user: the tokens of the user that are not
\* revoked yet, which it revokes and answers
revoke_tokens_from_user(tokens, uid) ==
    {t \in tokens : t.user = uid /\ ~t.revoked}

\* PermissionTree: map, a HashMap from role to a HashMap from permission to
\* subject and action, as the set of its entries, one per role; the
\* permissions of a role as the set of its entries, one per permission
PermissionTree_default == {}

tree_roles(map) == {e.role : e \in map}

\* HashMap::insert on the permissions of a role
insert_permission(permissions, permission, subject, action) ==
    {p \in permissions : p.permission # permission}
        \cup {[permission |-> permission, subject |-> subject,
               action |-> action]}

\* PermissionTree::add_role
add_role(map, role, permissions) ==
    {e \in map : e.role # role}
        \cup {[role |-> role, permissions |-> permissions]}

\* PermissionTree::remove_role
remove_role(map, role) == {e \in map : e.role # role}

\* add_permission that makes the role when the tree does not have it
add_permission_making_role(map, role, permission, subject, action) ==
    IF role \in tree_roles(map)
    THEN {IF e.role = role
          THEN [e EXCEPT !.permissions =
                    insert_permission(@, permission, subject, action)]
          ELSE e : e \in map}
    ELSE map \cup {[role |-> role,
                    permissions |->
                        insert_permission({}, permission, subject, action)]}

\* PermissionTree::add_permission
add_permission(map, role, permission, subject, action) ==
    {IF e.role = role
     THEN [e EXCEPT !.permissions =
                insert_permission(@, permission, subject, action)]
     ELSE e : e \in map}

\* PermissionTree::remove_permission
remove_permission(map, role, permission) ==
    {IF e.role = role
     THEN [e EXCEPT !.permissions = {p \in @ : p.permission # permission}]
     ELSE e : e \in map}

\* PermissionTree::get: the entries of all roles collected into one HashMap,
\* which keeps for each permission the entry it is given last; the roles are
\* read in the order of the HashMap, so every choice of one entry for each
\* permission is a possible answer
PermissionTree_get(map) ==
    LET entries == UNION {e.permissions : e \in map}
        ids == {p.permission : p \in entries}
    IN {m \in SUBSET entries :
            \A id \in ids :
                Cardinality({p \in m : p.permission = id}) = 1}

\* PermissionTree::get_subscribe, for each possible answer of get
get_subscribe(map) ==
    {{p.subject : p \in {q \in m : q.action = "subscribe"}} :
        m \in PermissionTree_get(map)}

\* Auth::has_permission as the queries call it
has_permission(auth, subject, action) == <<subject, action>> \in auth.permissions

\* the caller is not the user a record belongs to
not_owner(auth, user) == auth.claims = None \/ auth.claims[1].uid # user

\* confirm_email_updating that holds "confirm-self" to be enough for any
\* record
confirm_email_updating_any_owner(auth, users, updatings, id, code) ==
    LET rows == {r \in updatings : r.id = id /\ r.completed = None}
        row == CHOOSE r \in rows : TRUE
        failed(e) == Outcome(Err(e), users, {}, {}, updatings)
    IN IF /\ ~has_permission(auth, "user-email-updating", "confirm-self")
          /\ ~has_permission(auth, "user-email-updating", "confirm")
       THEN failed(PermissionDeniedFor("user-email-updating", "confirm"))
       ELSE IF rows = {} THEN failed(UserEmailUpdatingNotFound)
       ELSE IF row.expired THEN failed(UserEmailUpdatingExpired)
       ELSE IF row.code # code THEN failed(UserEmailUpdatingWrongCode)
       ELSE IF rows_by_username_or_email(users, None, Some(row.new_email)) # {}
       THEN failed(DuplicatedUser("email"))
       ELSE IF ~(row.user \in 1..Len(users) /\ ~users[row.user].deleted)
       THEN failed(UserNotFound)
       ELSE Outcome(Ok([id |-> row.user, email |-> row.new_email]),
                    [users EXCEPT ![row.user].email = Some(row.new_email)],
                    {}, {},
                    (updatings \ {row})
                        \cup {[row EXCEPT !.completed = Some(TRUE)]})

\* Query::confirm_email_updating: one transaction; an error leaves the tables
\* as they were
confirm_email_updating(auth, users, updatings, id, code) ==
    LET rows == {r \in updatings : r.id = id /\ r.completed = None}
        row == CHOOSE r \in rows : TRUE
        failed(e) == Outcome(Err(e), users, {}, {}, updatings)
    IN IF /\ ~has_permission(auth, "user-email-updating", "confirm-self")
          /\ ~has_permission(auth, "user-email-updating", "confirm")
       THEN failed(PermissionDeniedFor("user-email-updating", "confirm"))
       ELSE IF rows = {} THEN failed(UserEmailUpdatingNotFound)
       ELSE IF /\ not_owner(auth, row.user)
               /\ ~has_permission(auth, "user-email-updating", "confirm")
       THEN failed(PermissionDeniedFor("user-email-updating", "confirm"))
       ELSE IF row.expired THEN failed(UserEmailUpdatingExpired)
       ELSE IF row.code # code THEN failed(UserEmailUpdatingWrongCode)
       ELSE IF rows_by_username_or_email(users, None, Some(row.new_email)) # {}
       THEN failed(DuplicatedUser("email"))
       ELSE IF ~(row.user \in 1..Len(users) /\ ~users[row.user].deleted)
       THEN failed(UserNotFound)
       ELSE Outcome(Ok([id |-> row.user, email |-> row.new_email]),
                    [users EXCEPT ![row.user].email = Some(row.new_email)],
                    {}, {},
                    (updatings \ {row})
                        \cup {[row EXCEPT !.completed = Some(TRUE)]})

\* Query::query_email_updating
query_email_updating(auth, updatings, id) ==
    LET rows == {r \in updatings : r.id = id}
        registration == CHOOSE r \in rows : TRUE
    IN IF /\ ~has_permission(auth, "user-email-updating", "read-self")
          /\ ~has_permission(auth, "user-email-updating", "read")
       THEN Err(PermissionDeniedFor("user-email-updating", "read"))
       ELSE IF rows = {} THEN Err(UserEmailUpdatingNotFound)
       ELSE IF /\ not_owner(auth, registration.user)
               /\ ~has_permission(auth, "user-email-updating", "read")
       THEN Err(PermissionDeniedFor("user-email-updating", "read"))
       ELSE IF registration.completed = None /\ registration.expired
       THEN Err(UserEmailUpdatingExpired)
       ELSE Ok([id |-> registration.id, user |-> registration.user,
                new_email |-> registration.new_email,
                completed |-> registration.completed])

\* Query::resend_email_updating_email: its result and, if any, the mail it
\* hands to smtp, written as the arguments it passes to update_user_email
resend_email_updating_email(auth, users, updatings, id) ==
    LET rows == {r \in updatings :
                    /\ r.id = id
                    /\ r.completed = None
                    /\ r.user \in 1..Len(users)
                    /\ ~users[r.user].deleted}
        row == CHOOSE r \in rows : TRUE
        failed(e) == [result |-> Err(e), mail |-> None]
    IN IF /\ ~has_permission(auth, "user-email-updating", "resend-self")
          /\ ~has_permission(auth, "user-email-updating", "resend")
       THEN failed(PermissionDeniedFor("user-email-updating", "resend"))
       ELSE IF rows = {} THEN failed(UserEmailUpdatingNotFound)
       ELSE IF /\ not_owner(auth, row.user)
               /\ ~has_permission(auth, "user-email-updating", "resend")
       THEN failed(PermissionDeniedFor("user-email-updating", "resend"))
       ELSE IF row.expired THEN failed(UserEmailUpdatingExpired)
       ELSE [result |-> Ok(<<>>),
             mail |-> Some([to |-> row.new_email,
                            username |-> users[row.user].username,
                            id |-> id, code |-> row.code])]

----------------------------------------------------------------------------
(* Inputs of the escape specification *)

EscapeAlphabet == {Quote, "a", "1", "-"}

\* the tokens of escape_to_chrono_test, one with a month out of range, and
\* integers written with a sign or a zero the formatter does not write
EscapeSamples ==
    {<<"2", "0", "1", "4", "-", "1", "1", "-", "2", "8", "T", "1", "2", ":",
       "0", "0", ":", "0", "9", "Z">>,
     <<"2", "0", "1", "4", "-", "1", "3", "-", "2", "8", "T", "1", "2", ":",
       "0", "0", ":", "0", "9", "Z">>,
     <<"a", "b", "c">>, <<"+", "1">>, <<"0", "1">>, <<"-", "0">>}

EscapeInputs == StringsUpTo(EscapeAlphabet, MaxLen) \cup EscapeSamples

EscapeHandlers ==
    {None, Some(escape_unquoted("i32")), Some(escape_unquoted("u32")),
     Some(escape_quoted("i32")), Some(escape_quoted("DateTime"))}

STR_DateTime == <<"D", "a", "t", "e", "T", "i", "m", "e">>

EscapeConfigs ==
    {[FieldConfig_new(<<"a">>) EXCEPT !.escape_handler = h, !.type_name = t] :
        h \in EscapeHandlers,
        t \in {None, Some(<<"I", "n", "t">>), Some(STR_DateTime)}}

----------------------------------------------------------------------------
(* Inputs of the compiler specification: the two fields of generator_test1  *)
(* with every choice of the four flags, with and without the handler and    *)
(* the rename, and comparisons on these fields                              *)

STR_id == <<"i", "d">>
STR_text == <<"t", "e", "x", "t">>
STR_text_column == <<"\"", "t", "e", "x", "t", "\"">>

Flagged(cfg, w, o, e, l) ==
    [cfg EXCEPT !.wildcard = w, !.partial_order = o, !.partial_equal = e,
                !.use_like = l]

RegistryConfigs ==
    {Flagged(base, w, o, e, l) :
        base \in {FieldConfig_new(STR_id),
                  [FieldConfig_new(STR_id) EXCEPT
                        !.escape_handler = Some(escape_unquoted("i32"))],
                  FieldConfig_new(STR_text),
                  [FieldConfig_new(STR_text) EXCEPT
                        !.rename = Some(STR_text_column)]},
        w \in BOOLEAN, o \in BOOLEAN, e \in BOOLEAN, l \in BOOLEAN}

ValueAlphabet == {"1", Quote}
SampleValues == {<<"2">>, <<"+", "1">>, <<"a", "b", "%", "c">>, <<"_", "^", ")">>}
QueryValues == StringsUpTo(ValueAlphabet, MaxValueLen) \cup SampleValues

QueryFields == {None, Some(STR_id), Some(STR_text)}

Comparisons ==
    {Equal(f, v) : f \in QueryFields, v \in QueryValues}
    \cup {Order(f, o, v) : f \in QueryFields, o \in OrderOperator,
            v \in QueryValues}

\* the terms the enumerated Or / And / Not trees are built from
Terms ==
    {Order(Some(STR_id), "Gt", <<"1">>), Equal(Some(STR_id), <<"1">>),
     Equal(None, <<"a", "b", "%", "c">>), Order(Some(STR_text), "Lt", <<"1">>)}

RECURSIVE TermSeqs(_)
TermSeqs(n) ==
    IF n = 0 THEN {<<>>}
    ELSE LET shorter == TermSeqs(n - 1)
         IN shorter \cup {Append(s, t) : s \in shorter, t \in Terms}

\* trees two levels deep
NestedQueries ==
    {Or(<<Not(a), And(<<b, Equal(Some(STR_id), <<"1">>)>>)>>) :
        a \in Terms, b \in Terms}
    \cup {And(<<Or(<<a>>), Not(Not(b))>>) : a \in Terms, b \in Terms}

Queries ==
    Comparisons
    \cup {Not(t) : t \in Terms}
    \cup {Or(ts) : ts \in TermSeqs(MaxTerms)}
    \cup {And(ts) : ts \in TermSeqs(MaxTerms)}
    \cup NestedQueries

----------------------------------------------------------------------------
(* Inputs of the parser specification: atoms joined by " and " or by a      *)
(* space, the inputs of generator_test1, and inputs that do not parse       *)

\* the registry of generator_test1
TestId ==
    Flagged([FieldConfig_new(STR_id) EXCEPT
                !.escape_handler = Some(escape_unquoted("i32"))],
            TRUE, TRUE, TRUE, FALSE)
TestText ==
    Flagged([FieldConfig_new(STR_text) EXCEPT !.rename = Some(STR_text_column)],
            TRUE, FALSE, TRUE, TRUE)

\* an atom as written and the tree it stands for
Atoms ==
    <<[text |-> <<"i", "d", " ", ">", " ", "1">>,
            query |-> Order(Some(STR_id), "Gt", <<"1">>)],
      [text |-> <<"a", "b", "%", "c">>, query |-> Equal(None, <<"a", "b",
              "%", "c">>)],
      [text |-> <<"(", "i", "d", " ", "<", " ", "1", " ", "i", "d", ":", " ",
              "1", ")">>,
       query |-> Or(<<Order(Some(STR_id), "Lt", <<"1">>),
                      Equal(Some(STR_id), <<"1">>)>>)]>>

\* a shape: which atoms, and which connector between neighbours
Shapes ==
    UNION {[atoms : [1..n -> 1..Len(Atoms)],
            connectors : [1..(n - 1) -> {"and", "space"}]] : n \in 1..MaxAtoms}

RECURSIVE RenderFrom(_, _)
RenderFrom(shape, i) ==
    IF i > Len(shape.atoms) THEN <<>>
    ELSE (IF i = 1 THEN <<>>
          ELSE IF shape.connectors[i - 1] = "and" THEN <<" ", "a", "n", "d",
                  " ">> ELSE <<" ">>)
         \o Atoms[shape.atoms[i]].text \o RenderFrom(shape, i + 1)

\* the input that writes the shape down
Render(shape) == RenderFrom(shape, 1)

ParseSamples ==
    {<<>>, <<" ", "\t", "\n">>, <<"\n">>, <<" ", " ">>,
            <<"*", " ", ">", " ", "2">>, <<"1">>, <<"i",
            "d", " ", ">">>, <<"(", "i", "d", ":", " ", "1">>, <<")">>,
            <<"t", "e", "x", "t", ":", " ", "a", "b", "%", "c", " ", "a",
            "n", "d">>, <<"i", "d", "<", "=", "+", "1", " ", "n", "o", "t",
            " ", "t", "e", "x", "t", " ", ">", " ", "1">>}

ParseInputs == {Render(shape) : shape \in Shapes} \cup ParseSamples

----------------------------------------------------------------------------
(* Inputs of the server specification *)

Usernames == {"root", "u1", "u2"}
\* CreateUserRequest::email is optional; the requests here leave it out
Emails == {None}

\* a Vec<RoleName> with a role repeated apart from itself
RoleSamples == {<<"staff", "admin", "staff">>}

RoleSeqs == StringsUpTo(RoleNames, MaxRoles) \cup RoleSamples

\* the body of a create_user request
CreateUserRequests ==
    {[username |-> u, password |-> "p1", roles |-> rs, email |-> e] :
        u \in Usernames \ {"root"}, rs \in RoleSeqs, e \in Emails}

\* the rows of table user_registration: two registrations with the same
\* email, as register_user leaves them when neither is confirmed
Registrations ==
    {[id |-> "r1", code |-> "c1", username |-> "u1",
      password |-> bcrypt_hash("p1"), email |-> "e1", expired |-> FALSE,
      completed |-> None],
     [id |-> "r2", code |-> "c1", username |-> "u2",
      password |-> bcrypt_hash("p1"), email |-> "e1", expired |-> FALSE,
      completed |-> None]}

\* the rows of table user_email_updating: one of user 1 and one of user 2
EmailUpdatings ==
    {[id |-> "m1", code |-> "c1", user |-> 1, new_email |-> "e1",
      expired |-> FALSE, completed |-> None],
     [id |-> "m2", code |-> "c1", user |-> 2, new_email |-> "e2",
      expired |-> FALSE, completed |-> None]}

\* create_user calls that wait for the write lock: one for the username of
\* a registration, one with the email of the registrations
CheckedCalls ==
    {[auth |-> [permitted |-> TRUE, claims |-> Some([uid |-> 1])],
      data |-> [username |-> "u1", password |-> "p1", roles |-> <<"staff">>,
                email |-> None],
      roles |-> <<"staff">>],
     [auth |-> [permitted |-> TRUE, claims |-> Some([uid |-> 1])],
      data |-> [username |-> "u2", password |-> "p1", roles |-> <<>>,
                email |-> Some("e1")],
      roles |-> <<>>]}

\* the ids and codes of the confirm requests: those of the rows, an id of no
\* row and a wrong code
RegistrationIds == {"r1", "r2", "r9"}
EmailUpdatingIds == {"m1", "m2", "m9"}
Codes == {"c1", "c0"}

\* the bodies of update_user: username and email are left out or given, the
\* email also as null
UpdateUserRequests ==
    {[uid |-> uid, username |-> u, email |-> e] :
        uid \in 1..MaxUsers,
        u \in {None} \cup {Some(n) : n \in Usernames \ {"root"}},
        e \in {None, Some(None), Some(Some("e1"))}}

\* the Auth of a request on an email updating: the permissions among those
\* of the given actions that it holds, and its claims
EmailUpdatingAuths(users, actions) ==
    {[permissions |-> {<<"user-email-updating", a>> : a \in held},
      claims |-> c] :
        held \in SUBSET actions,
        c \in {None} \cup {Some([uid |-> uid]) : uid \in 1..Len(users)}}

\* the uploaded content: not an image, an image whose shorter side is at
\* most 128 pixels, and a larger one
Images == {"undecodable", "small", "large"}

\* the uid the avatar handlers are called with: the user and one that is not
\* in the table
AvatarUids == {1, 2}

\* what the Auth extractor hands to a handler: whether the permission asked
\* for is granted, and the claims of the token if the request carries one
Auths(users) ==
    {[permitted |-> p, claims |-> c] :
        p \in BOOLEAN,
        c \in {None} \cup {Some([uid |-> uid]) : uid \in 1..Len(users)}}

\* an Auth of which a handler asks one permission only
Permits == Auths(<<>>)

----------------------------------------------------------------------------
(* Operations *)

\* no call is in progress: the caller holds no result
Idle == op = "idle"

\* the avatar folder, the tables beside user and user_role, and the mail
\* queue before anything is stored
StoreInit ==
    /\ files = {}
    /\ user_registration = {}
    /\ user_email_updating = {}
    /\ token_table = {}
    /\ mails = <<>>
    /\ tree = PermissionTree_default

\* the server before any row is stored and any request has arrived
ServerInit ==
    /\ user_table = <<>>
    /\ user_role = {}
    /\ requests = EmptyBag
    /\ response = None
    /\ pushed = <<>>
    /\ StoreInit

\* QueryConfig::new
Init ==
    /\ fields = <<>>
    /\ op = "idle"
    /\ config = None
    /\ input = <<>>
    /\ query = None
    /\ result = Ok(<<>>)
    /\ ServerInit

\* FieldConfig::escape on a config built by the FieldConfig builder
CallEscape ==
    /\ Idle
    /\ \E cfg \in EscapeConfigs, inp \in EscapeInputs :
        /\ op' = "escape"
        /\ config' = Some(cfg)
        /\ input' = inp
        /\ result' = FieldConfig_escape(cfg, inp)
    /\ UNCHANGED <<fields, query>>
    /\ UNCHANGED server_vars

\* QueryConfig::field: the map holds the config under its name, and iterates
\* in an order of its own
Field ==
    /\ Idle
    /\ \E cfg \in RegistryConfigs :
        /\ op' = "field"
        /\ config' = Some(cfg)
        /\ \E order \in Orders(inserted(fields, cfg)) : fields' = order
    /\ UNCHANGED <<input, query, result>>
    /\ UNCHANGED server_vars

\* a compilation after which the map iterates in another order
QueryToPostgres_rehashing ==
    /\ Idle
    /\ \E q \in Queries :
        /\ op' = "query_to_postgres"
        /\ query' = Some(q)
        /\ result' = query_to_postgres(fields, q)
    /\ fields' \in Orders({fields[i] : i \in 1..Len(fields)})
    /\ UNCHANGED <<config, input>>
    /\ UNCHANGED server_vars

\* QueryConfig::query_to_postgres
QueryToPostgres ==
    /\ Idle
    /\ \E q \in Queries :
        /\ op' = "query_to_postgres"
        /\ query' = Some(q)
        /\ result' = query_to_postgres(fields, q)
    /\ UNCHANGED <<fields, config, input>>
    /\ UNCHANGED server_vars

\* QueryConfig::parse_to_postgres
ParseToPostgres ==
    /\ Idle
    /\ \E inp \in ParseInputs :
        \E parsed \in parse_outcomes(inp) :
            /\ op' = "parse_to_postgres"
            /\ input' = inp
            /\ query' = (IF parsed.tag = "Ok" THEN parsed.query ELSE None)
            /\ result' = compile_parsed(fields, inp, parsed)
    /\ UNCHANGED <<fields, config>>
    /\ UNCHANGED server_vars

\* the caller is done with the returned value
Return ==
    /\ ~Idle
    /\ op' = "idle"
    /\ config' = None
    /\ input' = <<>>
    /\ query' = None
    /\ result' = Ok(<<>>)
    /\ UNCHANGED fields
    /\ UNCHANGED server_vars

\* the handler has run to its end with the given result
Responds(auth, data, res) ==
    response' = Some([handler |-> "create_user", auth |-> auth, data |-> data,
                      result |-> res])

\* create_user up to the answer of check_extra_roles, read under the read
\* lock of the connection
CreateUserCheck ==
    /\ response = None
    /\ BagCardinality(requests) < MaxRequests
    /\ Len(user_table) + BagCardinality(requests) < MaxUsers
    /\ \E auth \in Auths(user_table), data \in CreateUserRequests :
        IF ~auth.permitted
        THEN Responds(auth, data, Err(PermissionDenied))
                /\ UNCHANGED requests
        ELSE IF auth.claims = None
        THEN Responds(auth, data, Err(MissingAuthorizationHeader))
                /\ UNCHANGED requests
        ELSE \E extra_roles \in check_extra_roles(user_role,
                                    auth.claims[1].uid, dedup(data.roles)) :
                IF extra_roles # <<>>
                THEN Responds(auth, data,
                            Err(AttemptToElevateRole(extra_roles)))
                        /\ UNCHANGED requests
                ELSE /\ requests' = requests (+) SetToBag({
                            [auth |-> auth, data |-> data,
                             roles |-> dedup(data.roles)]})
                     /\ UNCHANGED response
    /\ UNCHANGED <<user_table, user_role, pushed>>
    /\ UNCHANGED store_vars
    /\ UNCHANGED query_vars

\* create_user from insert_one on: the transaction under the write lock of
\* the connection, then the UserCreated message and the response
CreateUserInsert ==
    /\ response = None
    /\ \E call \in BagToSet(requests) :
        LET auth == call.auth
            data == call.data
            roles == call.roles
            duplicated_rows ==
                {i \in 1..Len(user_table) :
                    /\ ~user_table[i].deleted
                    /\ \/ user_table[i].username = data.username
                       \/ /\ data.email # None
                          /\ user_table[i].email = data.email}
            id == Len(user_table) + 1
        IN /\ requests' = requests (-) SetToBag({call})
           /\ \/ /\ \E i \in duplicated_rows :
                        Responds(auth, data,
                            Err(DuplicatedUser(
                                IF user_table[i].username = data.username
                                THEN "username" ELSE "email")))
                 /\ UNCHANGED <<user_table, user_role, pushed>>
              \/ /\ duplicated_rows = {}
                 /\ repeats_row(roles)
                 /\ Responds(auth, data, Err(InternalServerError))
                 /\ UNCHANGED <<user_table, user_role, pushed>>
              \/ /\ duplicated_rows = {}
                 /\ user_table' = Append(user_table,
                        user_row(data.username, bcrypt_hash(data.password),
                                 data.email))
                 /\ user_role' = user_role \cup insert_one_roles(id, roles)
                 /\ pushed' = Append(pushed,
                        UserCreated(id, data.username, roles))
                 /\ Responds(auth, data, Ok([id |-> id]))
    /\ UNCHANGED store_vars
    /\ UNCHANGED query_vars

\* the response has left the server
Respond ==
    /\ response # None
    /\ response' = None
    /\ UNCHANGED <<user_table, user_role, requests, pushed>>
    /\ UNCHANGED store_vars
    /\ UNCHANGED query_vars

\* a server with one user, who holds any of the roles
InitUsers ==
    /\ fields = <<>>
    /\ op = "idle"
    /\ config = None
    /\ input = <<>>
    /\ query = None
    /\ result = Ok(<<>>)
    /\ user_table = <<user_row("root", bcrypt_hash("p0"), None)>>
    /\ \E held \in SUBSET RoleNames :
            user_role = {[user |-> 1, role |-> name] : name \in held}
    /\ requests = EmptyBag
    /\ response = None
    /\ pushed = <<>>
    /\ StoreInit

NextUsers == CreateUserCheck \/ CreateUserInsert \/ Respond

SpecUsers == InitUsers /\ [][NextUsers]_vars

\* the avatar handlers have run to their end with the given result
RespondsAvatar(call, res) ==
    response' = Some([handler |-> call.handler, call |-> call, result |-> res])

\* the random part of a new file name: one that no file, no row and no call
\* in flight holds
new_filename ==
    LET held == files
                \cup UNION {avatar_files(user_table[i].avatar,
                                         user_table[i].avatar128) :
                                i \in 1..Len(user_table)}
                \cup UNION {avatar_files(c.old_avatars.avatar,
                                         c.old_avatars.avatar128)
                            \cup avatar_files(c.avatar, c.avatar128) :
                                c \in BagToSet(requests)}
    IN CHOOSE n \in 1..(Cardinality(held) + 1) :
            \A f \in held : f.filename # n

\* upload_avatar_impl and delete_avatar_impl up to the answer of
\* fetch_avatars
AvatarFetch ==
    /\ response = None
    /\ BagCardinality(requests) < MaxRequests
    /\ Len(pushed) + BagCardinality(requests) < MaxCalls
    /\ \E handler \in {"upload_avatar", "delete_avatar"}, uid \in AvatarUids,
            image \in Images :
        LET call == [handler |-> handler, pc |-> "fetched", uid |-> uid,
                     image |-> IF handler = "upload_avatar" THEN image
                               ELSE "none",
                     old_avatars |-> [avatar |-> None, avatar128 |-> None],
                     avatar |-> None, avatar128 |-> None]
            fetched == fetch_avatars(user_table, uid)
        IN /\ handler = "delete_avatar" => image = "small"
           /\ IF is_ok(fetched)
              THEN /\ requests' = requests (+) SetToBag({
                            [call EXCEPT !.old_avatars = fetched.value]})
                   /\ UNCHANGED response
              ELSE /\ RespondsAvatar(call, fetched)
                   /\ UNCHANGED requests
    /\ UNCHANGED <<user_table, user_role, pushed>>
    /\ UNCHANGED store_vars
    /\ UNCHANGED query_vars

\* upload_avatar_impl: the blocking closure that decodes, crops and saves
\* the avatar and, for an image larger than 128, its thumbnail
UploadWrite ==
    /\ response = None
    /\ \E call \in BagToSet(requests) :
        /\ call.handler = "upload_avatar"
        /\ call.pc = "fetched"
        /\ LET origin == origin_filename(new_filename)
               thumbnail == thumbnail_filename(new_filename)
           IN \/ /\ call.image = "undecodable"
                 /\ RespondsAvatar(call, Err(AvatarError))
                 /\ requests' = requests (-) SetToBag({call})
                 /\ UNCHANGED files
              \/ /\ call.image # "undecodable"
                 /\ RespondsAvatar(call, Err(InternalServerError))
                 /\ requests' = requests (-) SetToBag({call})
                 /\ UNCHANGED files
              \/ /\ call.image = "small"
                 /\ files' = files \cup {origin}
                 /\ requests' = (requests (-) SetToBag({call})) (+) SetToBag({
                        [call EXCEPT !.pc = "written", !.avatar = Some(origin)]})
                 /\ UNCHANGED response
              \/ /\ call.image = "large"
                 /\ files' = files \cup {origin, thumbnail}
                 /\ requests' = (requests (-) SetToBag({call})) (+) SetToBag({
                        [call EXCEPT !.pc = "written", !.avatar = Some(origin),
                                     !.avatar128 = Some(thumbnail)]})
                 /\ UNCHANGED response
    /\ UNCHANGED <<user_table, user_role, pushed>>
    /\ UNCHANGED <<user_registration, user_email_updating, token_table, mails,
                   tree>>
    /\ UNCHANGED query_vars

\* update_avatars as the database runs it: for an upload with the new names,
\* for a delete with None; when it fails the upload removes its new files
AvatarUpdate ==
    /\ response = None
    /\ \E call \in BagToSet(requests) :
        /\ call.pc = IF call.handler = "upload_avatar" THEN "written"
                     ELSE "fetched"
        /\ LET updated == update_avatars(user_table, call.uid, call.avatar,
                                         call.avatar128)
               fails(e) ==
                    /\ RespondsAvatar(call, Err(e))
                    /\ requests' = requests (-) SetToBag({call})
                    /\ files' = IF call.handler = "upload_avatar"
                                THEN remove_new_avatars(files, call.avatar[1],
                                                        call.avatar128)
                                ELSE files
                    /\ UNCHANGED user_table
           IN \/ /\ is_ok(updated)
                 /\ user_table' = updated.value
                 /\ requests' = (requests (-) SetToBag({call})) (+) SetToBag({
                        [call EXCEPT !.pc = "updated"]})
                 /\ UNCHANGED <<response, files>>
              \/ /\ ~is_ok(updated)
                 /\ fails(updated.error)
              \/ fails(InternalServerError)
    /\ UNCHANGED <<user_role, pushed>>
    /\ UNCHANGED <<user_registration, user_email_updating, token_table, mails,
                   tree>>
    /\ UNCHANGED query_vars

\* the handlers after update_avatars has answered: the old files are
\* removed, UserUpdated is sent and the response is built
AvatarFinish ==
    /\ response = None
    /\ \E call \in BagToSet(requests) :
        /\ call.pc = "updated"
        /\ requests' = requests (-) SetToBag({call})
        /\ files' = remove_old_avatars(files, call.old_avatars)
        /\ pushed' = Append(pushed,
                UserUpdated_avatars(call.uid, call.avatar, call.avatar128))
        /\ RespondsAvatar(call,
                IF call.handler = "upload_avatar"
                THEN Ok([avatar |-> call.avatar[1],
                         avatar128 |-> call.avatar128])
                ELSE Ok(<<>>))
    /\ UNCHANGED <<user_table, user_role>>
    /\ UNCHANGED <<user_registration, user_email_updating, token_table, mails,
                   tree>>
    /\ UNCHANGED query_vars

\* a server with one user, who has no avatar, an avatar, or an avatar and
\* its thumbnail, and whose files are in the avatar folder
InitAvatars ==
    /\ fields = <<>>
    /\ op = "idle"
    /\ config = None
    /\ input = <<>>
    /\ query = None
    /\ result = Ok(<<>>)
    /\ \E avatars \in {<<None, None>>, <<Some(origin_filename(1)), None>>,
                       <<Some(origin_filename(1)),
                         Some(thumbnail_filename(1))>>} :
        /\ user_table = <<[user_row("root", bcrypt_hash("p0"), None) EXCEPT
                                !.avatar = avatars[1],
                                !.avatar128 = avatars[2]]>>
        /\ files = avatar_files(avatars[1], avatars[2])
    /\ user_role = {}
    /\ requests = EmptyBag
    /\ response = None
    /\ pushed = <<>>
    /\ user_registration = {}
    /\ user_email_updating = {}
    /\ token_table = {}
    /\ mails = <<>>
    /\ tree = PermissionTree_default

NextAvatars ==
    AvatarFetch \/ UploadWrite \/ AvatarUpdate \/ AvatarFinish \/ Respond

SpecAvatars == InitAvatars /\ [][NextAvatars]_vars

\* a handler has run to its end with the given result
RespondsTo(handler, auth, data, res) ==
    response' = Some([handler |-> handler, auth |-> auth, data |-> data,
                      result |-> res])

\* the handler confirm_registration: the transaction under the write lock,
\* then the UserCreated message
ConfirmRegistration ==
    /\ response = None
    /\ Len(pushed) < MaxMessages
    /\ \E auth \in Permits, id \in RegistrationIds, code \in Codes :
        LET data == [reg_id |-> id, code |-> code]
        IN IF ~auth.permitted
           THEN /\ RespondsTo("confirm_registration", auth, data,
                        Err(PermissionDenied))
                /\ UNCHANGED <<user_table, user_role, user_registration,
                               pushed>>
           ELSE \E out \in confirm_registration(user_table, user_role,
                                user_registration, id, code) :
                /\ user_table' = out.user_table
                /\ user_role' = out.user_role
                /\ user_registration' = out.user_registration
                /\ pushed' = IF is_ok(out.result)
                             THEN Append(pushed, UserCreated(
                                    out.result.value.id,
                                    out.result.value.username,
                                    out.result.value.roles))
                             ELSE pushed
                /\ RespondsTo("confirm_registration", auth, data,
                        IF is_ok(out.result) THEN Ok(<<>>) ELSE out.result)
    /\ UNCHANGED <<requests, files, user_email_updating, token_table, mails,
                   tree>>
    /\ UNCHANGED query_vars

\* the handler update_user: the transaction under the write lock, then the
\* UserUpdated message
UpdateUser ==
    /\ response = None
    /\ Len(pushed) < MaxMessages
    /\ \E auth \in Permits, data \in UpdateUserRequests :
        LET updated == update_user(user_table, data.uid, data.username,
                                   data.email)
        IN IF ~auth.permitted
           THEN /\ RespondsTo("update_user", auth, data, Err(PermissionDenied))
                /\ UNCHANGED <<user_table, pushed>>
           ELSE IF is_ok(updated)
           THEN /\ user_table' = updated.value
                /\ pushed' = Append(pushed, UserUpdated_fields(data.uid,
                                data.username, data.email))
                /\ RespondsTo("update_user", auth, data, Ok(<<>>))
           ELSE /\ RespondsTo("update_user", auth, data, updated)
                /\ UNCHANGED <<user_table, pushed>>
    /\ UNCHANGED <<user_role, requests>>
    /\ UNCHANGED store_vars
    /\ UNCHANGED query_vars

\* the handler confirm_email_updating: the transaction under the write
\* lock, then the UserUpdated message
ConfirmEmailUpdating ==
    /\ response = None
    /\ Len(pushed) < MaxMessages
    /\ \E auth \in EmailUpdatingAuths(user_table, {"confirm", "confirm-self"}),
            id \in EmailUpdatingIds, code \in Codes :
        LET out == confirm_email_updating(auth, user_table,
                        user_email_updating, id, code)
        IN /\ user_table' = out.user_table
           /\ user_email_updating' = out.user_email_updating
           /\ pushed' = IF is_ok(out.result)
                        THEN Append(pushed, UserUpdated_fields(
                                out.result.value.id, None,
                                Some(Some(out.result.value.email))))
                        ELSE pushed
           /\ RespondsTo("confirm_email_updating", auth,
                    [update_id |-> id, code |-> code],
                    IF is_ok(out.result) THEN Ok(<<>>) ELSE out.result)
    /\ UNCHANGED <<user_role, requests, files, user_registration, token_table,
                   mails, tree>>
    /\ UNCHANGED query_vars

\* Utc::now() passes the expires_at of a registration or an email updating
TimePasses ==
    /\ response = None
    /\ \/ /\ \E r \in user_registration :
                /\ ~r.expired
                /\ user_registration' = (user_registration \ {r})
                        \cup {[r EXCEPT !.expired = TRUE]}
          /\ UNCHANGED user_email_updating
       \/ /\ \E r \in user_email_updating :
                /\ ~r.expired
                /\ user_email_updating' = (user_email_updating \ {r})
                        \cup {[r EXCEPT !.expired = TRUE]}
          /\ UNCHANGED user_registration
    /\ UNCHANGED <<user_table, user_role, requests, response, pushed, files,
                   token_table, mails, tree>>
    /\ UNCHANGED query_vars

\* a server with the user root, who holds every role, with or without a
\* deleted user of the name and email of a registration, with two
\* registrations and two email updatings waiting, and with two create_user
\* calls of root that have passed their check of the roles
InitAccounts ==
    /\ fields = <<>>
    /\ op = "idle"
    /\ config = None
    /\ input = <<>>
    /\ query = None
    /\ result = Ok(<<>>)
    /\ user_table \in
            {<<user_row("root", bcrypt_hash("p0"), None)>>,
             <<user_row("root", bcrypt_hash("p0"), None),
               [user_row("u1", bcrypt_hash("p1"), Some("e1")) EXCEPT
                    !.deleted = TRUE]>>}
    /\ user_role = {[user |-> 1, role |-> name] : name \in RoleNames}
    /\ requests = SetToBag(CheckedCalls)
    /\ response = None
    /\ pushed = <<>>
    /\ files = {}
    /\ user_registration = Registrations
    /\ user_email_updating = EmailUpdatings
    /\ token_table = {}
    /\ mails = <<>>
    /\ tree = PermissionTree_default

NextAccounts ==
    \/ CreateUserInsert
    \/ ConfirmRegistration
    \/ UpdateUser
    \/ ConfirmEmailUpdating
    \/ Respond

SpecAccounts == InitAccounts /\ [][NextAccounts]_vars

\* the server of InitAccounts on which registrations are confirmed and expire
NextRegistration ==
    \/ CreateUserInsert
    \/ ConfirmRegistration
    \/ TimePasses
    \/ Respond

SpecRegistration == InitAccounts /\ [][NextRegistration]_vars

\* the answer of the handler query_email_updating for the result of the
\* query
query_email_updating_response(res) ==
    IF is_ok(res)
    THEN Ok([status |-> IF res.value.completed = None THEN "Processing"
                        ELSE IF res.value.completed[1] THEN "Passed"
                        ELSE "Rejected",
             value |-> Some(res.value)])
    ELSE IF res.error = UserEmailUpdatingExpired
    THEN Ok([status |-> "Expired", value |-> None])
    ELSE IF res.error = UserEmailUpdatingNotFound
    THEN Ok([status |-> "NotFound", value |-> None])
    ELSE res

\* the handler query_email_updating, under the read lock
QueryEmailUpdating ==
    /\ response = None
    /\ \E auth \in EmailUpdatingAuths(user_table, {"read", "read-self"}),
            id \in EmailUpdatingIds :
        RespondsTo("query_email_updating", auth, [update_id |-> id],
            query_email_updating_response(
                query_email_updating(auth, user_email_updating, id)))
    /\ UNCHANGED <<user_table, user_role, requests, pushed>>
    /\ UNCHANGED store_vars
    /\ UNCHANGED query_vars

\* the handler resend_email_updating_email, under the read lock
ResendEmailUpdatingEmail ==
    /\ response = None
    /\ Len(mails) < MaxCalls
    /\ \E auth \in EmailUpdatingAuths(user_table, {"resend", "resend-self"}),
            id \in EmailUpdatingIds :
        LET out == resend_email_updating_email(auth, user_table,
                        user_email_updating, id)
        IN /\ mails' = IF out.mail = None THEN mails
                       ELSE Append(mails, out.mail[1])
           /\ RespondsTo("resend_email_updating_email", auth,
                    [update_id |-> id], out.result)
    /\ UNCHANGED <<user_table, user_role, requests, pushed>>
    /\ UNCHANGED <<files, user_registration, user_email_updating, token_table,
                   tree>>
    /\ UNCHANGED query_vars

\* a server with the users root and u1, u1 deleted or not, an email updating
\* of each and a registration
InitEmailUpdating ==
    /\ fields = <<>>
    /\ op = "idle"
    /\ config = None
    /\ input = <<>>
    /\ query = None
    /\ result = Ok(<<>>)
    /\ user_table \in
            {<<user_row("root", bcrypt_hash("p0"), None),
               [user_row("u1", bcrypt_hash("p1"), None) EXCEPT
                    !.deleted = d]>> : d \in BOOLEAN}
    /\ user_role = {}
    /\ requests = EmptyBag
    /\ response = None
    /\ pushed = <<>>
    /\ files = {}
    /\ user_registration = {CHOOSE r \in Registrations : r.id = "r1"}
    /\ user_email_updating = EmailUpdatings
    /\ token_table = {}
    /\ mails = <<>>
    /\ tree = PermissionTree_default

NextEmailUpdating ==
    \/ QueryEmailUpdating
    \/ ConfirmEmailUpdating
    \/ ResendEmailUpdatingEmail
    \/ TimePasses
    \/ Respond

SpecEmailUpdating == InitEmailUpdating /\ [][NextEmailUpdating]_vars

\* the rows of table permission: the id of a permission names one subject
\* and action
PermissionTable ==
    {[permission |-> 1, subject |-> "user", action |-> "subscribe"],
     [permission |-> 2, subject |-> "user", action |-> "read"],
     [permission |-> 3, subject |-> "token", action |-> "subscribe"]}

\* the ids of the roles the tree is called with
RoleIds == 1..MaxRoles

\* a method of PermissionTree has been called with the arguments and has
\* answered
Called(method, args, answer) ==
    response' = Some([handler |-> method, args |-> args, result |-> answer])

AddRole ==
    /\ response = None
    /\ \E role \in RoleIds, permissions \in SUBSET PermissionTable :
        /\ tree' = add_role(tree, role, permissions)
        /\ Called("add_role", [role |-> role, permissions |-> permissions],
                  <<>>)
    /\ UNCHANGED <<user_table, user_role, requests, pushed, files,
                   user_registration, user_email_updating, token_table, mails>>
    /\ UNCHANGED query_vars

RemoveRole ==
    /\ response = None
    /\ \E role \in RoleIds :
        /\ tree' = remove_role(tree, role)
        /\ Called("remove_role", [role |-> role], <<>>)
    /\ UNCHANGED <<user_table, user_role, requests, pushed, files,
                   user_registration, user_email_updating, token_table, mails>>
    /\ UNCHANGED query_vars

AddPermission ==
    /\ response = None
    /\ \E role \in RoleIds, p \in PermissionTable :
        /\ tree' = add_permission(tree, role, p.permission, p.subject,
                                  p.action)
        /\ Called("add_permission", [role |-> role, permission |-> p], <<>>)
    /\ UNCHANGED <<user_table, user_role, requests, pushed, files,
                   user_registration, user_email_updating, token_table, mails>>
    /\ UNCHANGED query_vars

RemovePermission ==
    /\ response = None
    /\ \E role \in RoleIds, p \in PermissionTable :
        /\ tree' = remove_permission(tree, role, p.permission)
        /\ Called("remove_permission", [role |-> role, permission |-> p],
                  <<>>)
    /\ UNCHANGED <<user_table, user_role, requests, pushed, files,
                   user_registration, user_email_updating, token_table, mails>>
    /\ UNCHANGED query_vars

Get ==
    /\ response = None
    /\ \E answer \in PermissionTree_get(tree) : Called("get", <<>>, answer)
    /\ UNCHANGED <<user_table, user_role, requests, pushed>>
    /\ UNCHANGED store_vars
    /\ UNCHANGED query_vars

GetSubscribe ==
    /\ response = None
    /\ \E answer \in get_subscribe(tree) : Called("get_subscribe", <<>>, answer)
    /\ UNCHANGED <<user_table, user_role, requests, pushed>>
    /\ UNCHANGED store_vars
    /\ UNCHANGED query_vars

\* PermissionTree::default()
InitPermissionTree ==
    /\ fields = <<>>
    /\ op = "idle"
    /\ config = None
    /\ input = <<>>
    /\ query = None
    /\ result = Ok(<<>>)
    /\ user_table = <<>>
    /\ user_role = {}
    /\ requests = EmptyBag
    /\ response = None
    /\ pushed = <<>>
    /\ files = {}
    /\ user_registration = {}
    /\ user_email_updating = {}
    /\ token_table = {}
    /\ mails = <<>>
    /\ tree = PermissionTree_default

NextPermissionTree ==
    \/ AddRole
    \/ RemoveRole
    \/ AddPermission
    \/ RemovePermission
    \/ Get
    \/ GetSubscribe
    \/ Respond

SpecPermissionTree == InitPermissionTree /\ [][NextPermissionTree]_vars

\* the tokens issued before the passwords change: two of user 1, one of
\* user 2
Tokens ==
    {[id |-> 1, user |-> 1, revoked |-> FALSE],
     [id |-> 2, user |-> 1, revoked |-> FALSE],
     [id |-> 3, user |-> 2, revoked |-> FALSE]}

\* the passwords of the requests
Passwords == {"p0", "p1"}

\* the calls of update_password_impl: update_password_for_me passes the uid
\* of the claims and the old password, update_password the uid of the path
\* and no old password
UpdatePasswordCalls ==
    {[uid |-> uid, password |-> p, old_password |-> old] :
        uid \in 1..MaxUsers, p \in Passwords,
        old \in {None} \cup {Some(o) : o \in Passwords}}

\* update_password_impl answers
RespondsPassword(call, res) ==
    response' = Some([handler |-> "update_password", uid |-> call.uid,
                      password |-> call.password,
                      old_password |-> call.old_password, result |-> res])

\* update_password_impl up to the commit of update_password, under the write
\* lock of the connection
PasswordUpdate ==
    /\ response = None
    /\ BagCardinality(requests) < MaxRequests
    /\ Len(pushed) + BagCardinality(requests) < MaxMessages
    /\ \E data \in UpdatePasswordCalls :
        LET updated == update_password(user_table, data.uid, data.password,
                                       data.old_password)
        IN IF is_ok(updated)
           THEN /\ user_table' = updated.value
                /\ requests' = requests (+) SetToBag({
                        [uid |-> data.uid, password |-> data.password,
                         old_password |-> data.old_password,
                         pc |-> "updated", results |-> {}]})
                /\ UNCHANGED response
           ELSE /\ RespondsPassword(data, Err(password_error(updated.error)))
                /\ UNCHANGED <<user_table, requests>>
    /\ UNCHANGED <<user_role, pushed>>
    /\ UNCHANGED store_vars
    /\ UNCHANGED query_vars

\* update_password_impl sends UserUpdated
PasswordSend ==
    /\ \E call \in BagToSet(requests) :
        /\ call.pc = "updated"
        /\ requests' = (requests (-) SetToBag({call}))
                (+) SetToBag({[call EXCEPT !.pc = "sent"]})
        /\ pushed' = Append(pushed, UserUpdated_password(call.uid))
    /\ UNCHANGED <<user_table, user_role, response>>
    /\ UNCHANGED store_vars
    /\ UNCHANGED query_vars

\* update_password_impl revokes the tokens of the user, under the read lock
PasswordRevoke ==
    /\ \E call \in BagToSet(requests) :
        LET results == revoke_tokens_from_user(token_table, call.uid)
        IN /\ call.pc = "sent"
           /\ token_table' = (token_table \ results)
                    \cup {[t EXCEPT !.revoked = TRUE] : t \in results}
           /\ requests' = (requests (-) SetToBag({call}))
                    (+) SetToBag({[call EXCEPT !.pc = "revoked",
                                               !.results = results]})
    /\ UNCHANGED <<user_table, user_role, response, pushed>>
    /\ UNCHANGED <<files, user_registration, user_email_updating, mails, tree>>
    /\ UNCHANGED query_vars

\* update_password_impl sends a TokenRevoked for each token it revoked, in
\* the order the query answered them, and answers
PasswordFinish ==
    /\ response = None
    /\ \E call \in BagToSet(requests) :
        /\ call.pc = "revoked"
        /\ requests' = requests (-) SetToBag({call})
        /\ \E results \in Orders(call.results) :
                pushed' = pushed \o
                    [k \in 1..Len(results) |->
                        TokenRevoked(results[k].id, results[k].user)]
        /\ RespondsPassword(call, Ok(<<>>))
    /\ UNCHANGED <<user_table, user_role>>
    /\ UNCHANGED store_vars
    /\ UNCHANGED query_vars

\* a server with the users root and u1, u1 deleted or not, and their tokens
InitPassword ==
    /\ fields = <<>>
    /\ op = "idle"
    /\ config = None
    /\ input = <<>>
    /\ query = None
    /\ result = Ok(<<>>)
    /\ user_table \in
            {<<user_row("root", bcrypt_hash("p0"), None),
               [user_row("u1", bcrypt_hash("p1"), None) EXCEPT
                    !.deleted = d]>> : d \in BOOLEAN}
    /\ user_role = {}
    /\ requests = EmptyBag
    /\ response = None
    /\ pushed = <<>>
    /\ files = {}
    /\ user_registration = {}
    /\ user_email_updating = {}
    /\ token_table = Tokens
    /\ mails = <<>>
    /\ tree = PermissionTree_default

NextPassword ==
    \/ PasswordUpdate
    \/ PasswordSend
    \/ PasswordRevoke
    \/ PasswordFinish
    \/ Respond

SpecPassword == InitPassword /\ [][NextPassword]_vars

NextEscape == CallEscape \/ Return

SpecEscape == Init /\ [][NextEscape]_vars

\* the registry generator_test1 builds in either iteration order, the empty
\* registry, and a registry whose one field allows no comparison
ParseRegistries ==
    {<<TestId, TestText>>, <<TestText, TestId>>, <<>>,
     <<FieldConfig_new(STR_id)>>}

InitParse ==
    /\ fields \in ParseRegistries
    /\ op = "idle"
    /\ config = None
    /\ input = <<>>
    /\ query = None
    /\ result = Ok(<<>>)
    /\ ServerInit

NextParse == ParseToPostgres \/ Return

SpecParse == InitParse /\ [][NextParse]_vars

Next == Field \/ QueryToPostgres \/ Return

Spec == Init /\ [][Next]_vars

----------------------------------------------------------------------------
(* Reading a literal back, as the SQL lexer does *)

QuotesBefore(s, i) == Cardinality({k \in 1..(i - 1) : s[k] = Quote})

RECURSIVE LiteralEnd(_, _)
\* the index of the quote that closes a literal scanned from position j on
\* (a quote followed by a quote is an escaped quote), 0 if it is never closed
LiteralEnd(r, j) ==
    IF j > Len(r) THEN 0
    ELSE IF r[j] # Quote THEN LiteralEnd(r, j + 1)
    ELSE IF j < Len(r) /\ r[j + 1] = Quote THEN LiteralEnd(r, j + 2)
    ELSE j

\* [i..j] is a maximal run of quote characters of s
IsQuoteRun(s, i, j) ==
    /\ i <= j
    /\ \A k \in i..j : s[k] = Quote
    /\ i = 1 \/ s[i - 1] # Quote
    /\ j = Len(s) \/ s[j + 1] # Quote

EvenQuoteRuns(s) ==
    \A i, j \in 1..Len(s) : IsQuoteRun(s, i, j) => (j - i + 1) % 2 = 0

IsDefaultEscape == op = "escape" /\ config[1].escape_handler = None

IsQuotedEscape ==
    /\ op = "escape"
    /\ unwrap_or(config[1].escape_handler,
            escape_quoted("String")).factory = "quoted"

----------------------------------------------------------------------------
(* Claims *)

\* C1: with no custom handler, escape never fails and returns a quote, the
\* input with every quote doubled, and a quote: each character of the input
\* sits at its place shifted by the quotes before it, a quote is followed by
\* its double, and the literal read back ends at the last character only.
C1_DefaultEscapeDoublesQuotes ==
    IsDefaultEscape =>
        /\ is_ok(result)
        /\ LET r == result.value
           IN /\ Len(r) = Len(input) + QuotesBefore(input, Len(input) + 1) + 2
              /\ r[1] = Quote
              /\ r[Len(r)] = Quote
              /\ \A i \in 1..Len(input) :
                    LET at == 1 + i + QuotesBefore(input, i)
                    IN /\ r[at] = input[i]
                       /\ input[i] = Quote => r[at + 1] = Quote
              /\ LiteralEnd(r, 2) = Len(r)

C1_Witness ==
    /\ IsDefaultEscape
    /\ input = <<"a", Quote, Quote>>
    /\ result = Ok(<<Quote, "a", Quote, Quote, Quote, Quote, Quote>>)

\* C2 as stated: the literal returned by escape contains no run of an odd
\* number of quote characters (a wrapping quote that stands alone, next to no
\* other quote, is not counted as such a run).
C2_NoOddQuoteRun ==
    (IsQuotedEscape /\ is_ok(result)) =>
        LET r == result.value
        IN \A i, j \in 1..Len(r) :
            (IsQuoteRun(r, i, j) /\ ~(i = j /\ i \in {1, Len(r)})) =>
                (j - i + 1) % 2 = 0

\* C2 amended: between its two wrapping quotes the literal of a quoting
\* handler contains only runs of an even number of quotes, so read back it is
\* closed by its last character; the two wrapping quotes themselves are
\* single.
C2_EvenQuoteRunsInside ==
    (IsQuotedEscape /\ is_ok(result)) =>
        LET r == result.value
        IN /\ Len(r) >= 2
           /\ r[1] = Quote
           /\ r[Len(r)] = Quote
           /\ EvenQuoteRuns(SubSeq(r, 2, Len(r) - 1))
           /\ LiteralEnd(r, 2) = Len(r)

C2_Witness ==
    /\ IsDefaultEscape
    /\ input = <<Quote, "a", Quote>>
    /\ result = Ok(<<Quote, Quote, Quote, "a", Quote, Quote, Quote>>)

IsTypedEscape == op = "escape" /\ config[1].escape_handler # None

\* the name of the primitive type a handler parses its token as
PrimitiveName(T) ==
    CASE T = "i32" -> <<"i", "3", "2">>
      [] T = "u32" -> <<"u", "3", "2">>
      [] T = "DateTime" ->
            <<"c", "h", "r", "o", "n", "o", ":", ":", "d", "a", "t", "e", "t",
              "i", "m", "e", ":", ":", "D", "a", "t", "e", "T", "i", "m", "e",
              "<", "c", "h", "r", "o", "n", "o", ":", ":", "o", "f", "f", "s",
              "e", "t", ":", ":", "u", "t", "c", ":", ":", "U", "t", "c", ">">>

\* C17: a typed handler, quoted or unquoted, whose token does not parse
\* returns InvalidValue with the name of the field config and, as expected
\* type, the label the config declares when it declares one and the name of
\* the primitive type otherwise; a token that parses gives no error.
C17_InvalidValueLabel ==
    IsTypedEscape =>
        LET cfg == config[1]
            T == cfg.escape_handler[1].T
        IN IF from_str(T, input) = None
           THEN result = Err([kind |-> "InvalidValue", field |-> cfg.field,
                              accepted_type |->
                                IF cfg.type_name # None THEN cfg.type_name[1]
                                ELSE PrimitiveName(T)])
           ELSE is_ok(result)

C17_Witness ==
    /\ IsTypedEscape
    /\ config[1].escape_handler = Some(escape_quoted("DateTime"))
    /\ config[1].type_name = Some(<<"D", "a", "t", "e", "T", "i", "m", "e">>)
    /\ input = <<"a", "b", "c">>
    /\ result = Err([kind |-> "InvalidValue", field |-> <<"a">>,
                     accepted_type |-> <<"D", "a", "t", "e", "T", "i", "m",
                                          "e">>])

RECURSIVE Numeral(_)
\* a natural number in decimal digits
Numeral(n) ==
    IF n < 10 THEN <<DigitOrder[n + 1]>>
    ELSE Numeral(n \div 10) \o <<DigitOrder[(n % 10) + 1]>>

\* how the formatter writes the value a token of the primitive type T
\* stands for: an integer without "+" and without leading zeros, zero
\* without a sign; a date and time with the offset +00:00
Rendering(T, token) ==
    IF T = "DateTime"
    THEN SubSeq(token, 1, 19) \o <<"+", "0", "0", ":", "0", "0">>
    ELSE LET signed == token[1] \in {"+", "-"}
             n == Number(IF signed THEN Tail(token) ELSE token)
         IN IF token[1] = "-" /\ n > 0 THEN <<"-">> \o Numeral(n)
            ELSE Numeral(n)

\* C23: a typed handler returns a literal only for a token that parses as
\* its primitive type, and the literal is the value written by the
\* formatter, between single quotes for the quoted factory and bare for the
\* unquoted one, whether or not the token was written that way; a token that
\* does not parse gives InvalidValue and nothing else.
C23_TypedLiteral ==
    IsTypedEscape =>
        LET h == config[1].escape_handler[1]
        IN IF from_str(h.T, input) = None
           THEN /\ ~is_ok(result)
                /\ result.error.kind = "InvalidValue"
           ELSE /\ Quote \notin {Rendering(h.T, input)[i] :
                                    i \in 1..Len(Rendering(h.T, input))}
                /\ result = Ok(IF h.factory = "quoted"
                               THEN <<Quote>> \o Rendering(h.T, input)
                                        \o <<Quote>>
                               ELSE Rendering(h.T, input))

C23_Witness ==
    /\ IsTypedEscape
    /\ config[1].escape_handler = Some(escape_unquoted("i32"))
    /\ input = <<"+", "1">>
    /\ result = Ok(<<"1">>)

----------------------------------------------------------------------------
(* Reading the state of a compilation *)

IsCompile == op = "query_to_postgres"
IsComparison == IsCompile /\ query[1].type \in {"Equal", "Order"}
IsTargeted == IsComparison /\ query[1].field # None
IsWildcard == IsComparison /\ query[1].field = None

Registered(name) == \E i \in 1..Len(fields) : fields[i].field = name
ConfigOf(name) == fields[CHOOSE i \in 1..Len(fields) : fields[i].field = name]

OperationOf(q) == IF q.type = "Equal" THEN STR_equal ELSE STR_order
Capable(cfg, q) ==
    IF q.type = "Equal" THEN cfg.partial_equal ELSE cfg.partial_order
Accepts(cfg, value) == is_ok(FieldConfig_escape(cfg, value))

RECURSIVE Interleave(_, _)
\* the fragments in order with the separator between neighbours
Interleave(frags, sep) ==
    IF frags = <<>> THEN <<>>
    ELSE IF Len(frags) = 1 THEN frags[1]
    ELSE Interleave(SubSeq(frags, 1, Len(frags) - 1), sep) \o sep
            \o frags[Len(frags)]

Parenthesized(str) == <<"(">> \o str \o <<")">>
Unparenthesized(str) == SubSeq(str, 2, Len(str) - 1)

\* what the comparison q compiles to when aimed at the registered field name
Targeted(q, name) == query_to_postgres(fields, [q EXCEPT !.field = Some(name)])

\* the registry positions, in iteration order
Positions == [i \in 1..Len(fields) |-> i]

\* the wildcard fields with the capability for q that accept its value
Survivors(q) ==
    SelectSeq(Positions, LAMBDA i : /\ fields[i].wildcard
                                    /\ Capable(fields[i], q)
                                    /\ Accepts(fields[i], q.value))

\* the wildcard fields, capable or not, that accept the value of q
WildcardAccepting(q) ==
    SelectSeq(Positions, LAMBDA i : /\ fields[i].wildcard
                                    /\ Accepts(fields[i], q.value))

\* the predicates of the registry positions, each as the targeted comparison
\* on that field renders it
PredicatesAt(q, positions) ==
    [k \in 1..Len(positions) |->
        Unparenthesized(Targeted(q, fields[positions[k]].field).value)]

\* the registry of generator_test1, in either iteration order
IsTestRegistry == fields \in {<<TestId, TestText>>, <<TestText, TestId>>}

----------------------------------------------------------------------------
(* Claims on the compiler *)

\* C3: a non-empty Or (And) whose terms all compile returns "(" then the
\* fragments of the terms in their order joined by " OR " (" AND ") then ")";
\* a Not whose term compiles returns "(NOT " then the fragment then ")".
C3_OrAndNotRendering ==
    IsCompile =>
        LET q == query[1]
        IN /\ (q.type \in {"Or", "And"} /\ q.queries # <<>>) =>
                LET terms == [i \in 1..Len(q.queries) |->
                                query_to_postgres(fields, q.queries[i])]
                IN (\A i \in 1..Len(terms) : is_ok(terms[i])) =>
                    result = Ok(Parenthesized(Interleave(
                        [i \in 1..Len(terms) |-> terms[i].value],
                        IF q.type = "Or" THEN <<" ", "O", "R",
                                " ">> ELSE <<" ", "A", "N", "D", " ">>)))
           /\ q.type = "Not" =>
                LET term == query_to_postgres(fields, q.query)
                IN is_ok(term) =>
                    result = Ok(Parenthesized(<<"N", "O", "T", " ">>
                            \o term.value))

C3_Witness ==
    /\ IsCompile
    /\ query = Some(Or(<<Order(Some(STR_id), "Gt", <<"1">>),
                         Equal(Some(STR_id), <<"1">>)>>))
    /\ result = Ok(<<"(", "(", "i", "d", " ", ">", " ", "1", ")", " ", "O",
            "R", " ", "(", "i", "d", " ", "=", " ", "1", ")", ")">>)

\* C5: a comparison naming a field that is not in the registry fails with
\* UnknownField carrying that name, whatever its operator and value.
C5_UnknownField ==
    (IsTargeted /\ ~Registered(query[1].field[1])) =>
        result = Err(UnknownField(query[1].field[1]))

C5_Witness ==
    /\ IsTargeted
    /\ fields # <<>>
    /\ query = Some(Order(Some(STR_text), "Lte", <<"a", "b", "%", "c">>))
    /\ result = Err(UnknownField(STR_text))

\* C6: a comparison on a registered field without the capability for it
\* fails with UnsupportedOperation carrying the field and "equal" or "order";
\* the other capability and the wildcard flag change nothing.
C6_UnsupportedOperation ==
    (IsTargeted /\ Registered(query[1].field[1])) =>
        LET q == query[1]
            cfg == ConfigOf(q.field[1])
        IN /\ (q.type = "Order" /\ ~cfg.partial_order) =>
                result = Err(UnsupportedOperation(q.field[1], <<"o", "r",
                        "d", "e", "r">>))
           /\ (q.type = "Equal" /\ ~cfg.partial_equal) =>
                result = Err(UnsupportedOperation(q.field[1], <<"e", "q",
                        "u", "a", "l">>))

C6_Witness ==
    /\ IsTargeted
    /\ query[1].type = "Order"
    /\ query[1].field = Some(STR_id)
    /\ Registered(STR_id)
    /\ ConfigOf(STR_id).wildcard
    /\ ConfigOf(STR_id).partial_equal
    /\ ~ConfigOf(STR_id).partial_order
    /\ result = Err(UnsupportedOperation(STR_id, <<"o", "r", "d", "e", "r">>))

\* C7: an Equal without a field compiles to the parenthesized " OR " join of
\* the predicates of exactly the wildcard, equality-capable fields whose
\* handler accepts the value; a field rejecting the value is left out, and
\* the comparison never fails with InvalidValue.
C7_WildcardEqualSkipsRejecting ==
    (IsWildcard /\ query[1].type = "Equal") =>
        LET q == query[1]
        IN /\ Survivors(q) # <<>> =>
                result = Ok(Parenthesized(Interleave(
                                PredicatesAt(q, Survivors(q)), <<" ", "O",
                                        "R", " ">>)))
           /\ ~is_ok(result) => result.error.kind # "InvalidValue"

C7_Witness ==
    /\ IsWildcard
    /\ IsTestRegistry
    /\ query = Some(Equal(None, <<"a", "b", "%", "c">>))
    /\ result = Ok(<<"(", "\"", "t", "e", "x", "t", "\"", " ", "I", "L", "I",
            "K", "E", " ", "'", "%", "'", " ", "|", "|", " ", "'", "a", "b",
            "^", "%", "c", "'", " ", "|", "|", " ", "'", "%", "'", " ", "E",
            "S", "C", "A", "P", "E", " ", "'", "^", "'", ")">>)

\* C8: an Order without a field has as candidates only the fields flagged
\* both wildcard and order-capable: its fragment is the join of the order
\* predicates of those that accept the value, and "* > 2" on the registry of
\* generator_test1 is (id > 2).
C8_WildcardOrderCandidates ==
    (IsWildcard /\ query[1].type = "Order") =>
        LET q == query[1]
        IN /\ is_ok(result) =>
                /\ Survivors(q) # <<>>
                /\ result.value = Parenthesized(Interleave(
                                    PredicatesAt(q, Survivors(q)), <<" ",
                                            "O", "R", " ">>))
           /\ (IsTestRegistry /\ q = Order(None, "Gt", <<"2">>)) =>
                result = Ok(<<"(", "i", "d", " ", ">", " ", "2", ")">>)

C8_Witness ==
    /\ IsWildcard
    /\ IsTestRegistry
    /\ query = Some(Order(None, "Gt", <<"2">>))
    /\ result = Ok(<<"(", "i", "d", " ", ">", " ", "2", ")">>)

\* C9: a comparison without a field fails with EmptyWildcardOperation
\* ("equal" or "order") exactly when no wildcard field with the capability
\* accepts the value, and succeeds in every other case.
C9_EmptyWildcardOperation ==
    IsWildcard =>
        LET q == query[1]
        IN IF Survivors(q) = <<>>
           THEN result = Err(EmptyWildcardOperation(
                                IF q.type = "Equal" THEN <<"e", "q", "u",
                                        "a", "l">> ELSE <<"o", "r", "d", "e",
                                        "r">>))
           ELSE is_ok(result)

C9_Witness ==
    /\ IsWildcard
    /\ query = Some(Order(None, "Lt", <<"a", "b", "%", "c">>))
    /\ \E i \in 1..Len(fields) : fields[i].wildcard /\ fields[i].partial_order
    /\ result = Err(EmptyWildcardOperation(<<"o", "r", "d", "e", "r">>))

\* C10 as stated: a value accepted by exactly one wildcard field compiles to
\* that field's predicate, and a value accepted by no wildcard field fails
\* with EmptyWildcardOperation.
C10_OneWildcardField ==
    IsWildcard =>
        LET q == query[1]
            accepting == WildcardAccepting(q)
        IN /\ Len(accepting) = 1 =>
                LET cfg == fields[accepting[1]]
                    literal == FieldConfig_escape(cfg, q.value).value
                    column == unwrap_or(cfg.rename, cfg.field)
                IN \/ result = Ok(Parenthesized(column \o <<" ">>
                                    \o (IF q.type = "Equal" THEN <<"=">>
                                        ELSE operator_str(q.operator))
                                    \o <<" ">> \o literal))
                   \/ /\ q.type = "Equal"
                      /\ cfg.use_like
                      /\ result = Ok(Parenthesized(column \o <<" ", "I", "L",
                              "I", "K", "E", " ", "'", "%", "'", " ", "|",
                              "|", " ">>
                                    \o like_escape(literal) \o <<" ", "|",
                                            "|", " ", "'", "%", "'", " ",
                                            "E", "S", "C", "A", "P", "E",
                                            " ", "'", "^", "'">>))
           /\ accepting = <<>> =>
                result = Err(EmptyWildcardOperation(OperationOf(q)))

\* C10 amended: a value accepted by exactly one field that is wildcard and
\* capable of the comparison's operation compiles to that field's predicate;
\* a value accepted by no such field fails with EmptyWildcardOperation.
C10_OneCapableWildcardField ==
    IsWildcard =>
        LET q == query[1]
            accepting == Survivors(q)
        IN /\ Len(accepting) = 1 =>
                LET cfg == fields[accepting[1]]
                    literal == FieldConfig_escape(cfg, q.value).value
                    column == unwrap_or(cfg.rename, cfg.field)
                IN result = Ok(Parenthesized(
                        IF q.type = "Equal" /\ cfg.use_like
                        THEN column \o <<" ", "I", "L", "I", "K", "E", " ",
                                "'", "%", "'", " ", "|", "|", " ">>
                                \o like_escape(literal) \o <<" ", "|", "|",
                                        " ", "'", "%", "'", " ", "E", "S",
                                        "C", "A", "P", "E", " ", "'", "^",
                                        "'">>
                        ELSE column \o <<" ">>
                                \o (IF q.type = "Equal" THEN <<"=">>
                                    ELSE operator_str(q.operator))
                                \o <<" ">> \o literal))
           /\ accepting = <<>> =>
                result = Err(EmptyWildcardOperation(OperationOf(q)))

C10_Witness ==
    /\ IsWildcard
    /\ Len(fields) = 2
    /\ Len(WildcardAccepting(query[1])) = 2
    /\ Len(Survivors(query[1])) = 1
    /\ query = Some(Order(None, "Gte", <<"+", "1">>))
    /\ result = Ok(<<"(", "i", "d", " ", ">", "=", " ", "1", ")">>)

RECURSIVE LikeLiteral(_)
\* the text a LIKE pattern with the escape character "^" matches character
\* for character: None when a "%" or "_" of the pattern stands unescaped, or
\* a "^" escapes none of "^", "%", "_"
LikeLiteral(pattern) ==
    IF pattern = <<>> THEN Some(<<>>)
    ELSE IF pattern[1] = "^"
    THEN IF Len(pattern) >= 2 /\ pattern[2] \in {"^", "%", "_"}
         THEN LET rest == LikeLiteral(SubSeq(pattern, 3, Len(pattern)))
              IN IF rest = None THEN None ELSE Some(<<pattern[2]>> \o rest[1])
         ELSE None
    ELSE IF pattern[1] \in {"%", "_"} THEN None
    ELSE LET rest == LikeLiteral(Tail(pattern))
         IN IF rest = None THEN None ELSE Some(<<pattern[1]>> \o rest[1])

\* predicate is column ILIKE '%' || P || '%' ESCAPE '^' for a pattern P in
\* which every character of the literal is matched as itself
IsContains(predicate, column, literal) ==
    LET before == column \o <<" ", "I", "L", "I", "K", "E", " ", "'", "%",
                              "'", " ", "|", "|", " ">>
        after == <<" ", "|", "|", " ", "'", "%", "'", " ", "E", "S", "C",
                   "A", "P", "E", " ", "'", "^", "'">>
        n == Len(predicate)
    IN /\ n >= Len(before) + Len(after)
       /\ SubSeq(predicate, 1, Len(before)) = before
       /\ SubSeq(predicate, n - Len(after) + 1, n) = after
       /\ LikeLiteral(SubSeq(predicate, Len(before) + 1, n - Len(after)))
                = Some(literal)

\* C11: on a field flagged for substring matching an equality renders as
\* <output name> ILIKE '%' || P || '%' ESCAPE '^', where read with the escape
\* character "^" the pattern P matches the handler's literal character for
\* character (no "%" or "_" unescaped, every "^" doubled); this holds for a
\* targeted field and for each such field of a wildcard expansion.
C11_LikeEscaped ==
    /\ (IsTargeted /\ query[1].type = "Equal"
            /\ Registered(query[1].field[1])) =>
            LET cfg == ConfigOf(query[1].field[1])
            IN (cfg.use_like /\ cfg.partial_equal
                    /\ Accepts(cfg, query[1].value)) =>
                /\ is_ok(result)
                /\ IsContains(Unparenthesized(result.value),
                        unwrap_or(cfg.rename, cfg.field),
                        FieldConfig_escape(cfg, query[1].value).value)
    /\ (IsWildcard /\ query[1].type = "Equal" /\ is_ok(result)) =>
            LET survivors == Survivors(query[1])
                predicates == PredicatesAt(query[1], survivors)
            IN /\ result.value = Parenthesized(Interleave(predicates,
                                        <<" ", "O", "R", " ">>))
               /\ \A k \in 1..Len(survivors) :
                    LET cfg == fields[survivors[k]]
                    IN cfg.use_like =>
                        IsContains(predicates[k],
                            unwrap_or(cfg.rename, cfg.field),
                            FieldConfig_escape(cfg, query[1].value).value)

C11_Witness ==
    /\ IsTargeted
    /\ query = Some(Equal(Some(STR_text), <<"_", "^", ")">>))
    /\ result = Ok(<<"(", "\"", "t", "e", "x", "t", "\"", " ", "I", "L", "I",
            "K", "E", " ", "'", "%", "'", " ", "|", "|", " ", "'", "^", "_",
            "^", "^", ")", "'", " ", "|", "|", " ", "'", "%", "'", " ", "E",
            "S", "C", "A", "P", "E", " ", "'", "^", "'", ")">>)

RECURSIVE Leaves(_)
RECURSIVE LeavesOf(_)
\* the comparisons of a tree, left to right and depth first
Leaves(q) ==
    CASE q.type \in {"Or", "And"} -> LeavesOf(q.queries)
      [] q.type = "Not" -> Leaves(q.query)
      [] OTHER -> <<q>>

LeavesOf(terms) ==
    IF terms = <<>> THEN <<>> ELSE Leaves(Head(terms)) \o LeavesOf(Tail(terms))

\* C13: a compilation in which a comparison of the tree fails returns an
\* error and no fragment, and the error is that of the first failing
\* comparison in left-to-right, depth-first order, whatever the comparisons
\* before and after it compile to; with no failing comparison it succeeds.
C13_FailFast ==
    IsCompile =>
        LET leaves == Leaves(query[1])
            outcome == [i \in 1..Len(leaves) |->
                            query_to_postgres(fields, leaves[i])]
            failing == {i \in 1..Len(leaves) : ~is_ok(outcome[i])}
        IN IF failing = {} THEN is_ok(result)
           ELSE /\ result.tag = "Err"
                /\ DOMAIN result = {"tag", "error"}
                /\ result.error =
                    outcome[CHOOSE i \in failing : \A j \in failing : i <= j]
                        .error

C13_Witness ==
    /\ IsCompile
    /\ query = Some(Or(<<Not(Order(Some(STR_id), "Gt", <<"1">>)),
                         And(<<Order(Some(STR_text), "Lt", <<"1">>),
                               Equal(Some(STR_id), <<"1">>)>>)>>))
    /\ is_ok(query_to_postgres(fields, Order(Some(STR_id), "Gt", <<"1">>)))
    /\ query_to_postgres(fields, Equal(Some(STR_id), <<"1">>))
            = Err(UnsupportedOperation(STR_id, STR_equal))
    /\ result = Err(UnsupportedOperation(STR_text, STR_order))

\* reading one character of a fragment: a quote opens or closes a literal
\* (a doubled quote closes and reopens it), and outside a literal "(" and
\* ")" change the nesting depth; low is the lowest depth reached
ScanStep(st, c) ==
    IF c = Quote THEN [st EXCEPT !.inside = ~st.inside]
    ELSE IF st.inside THEN st
    ELSE IF c = "(" THEN [st EXCEPT !.depth = st.depth + 1]
    ELSE IF c = ")"
    THEN [st EXCEPT !.depth = st.depth - 1,
                    !.low = IF st.depth - 1 < st.low THEN st.depth - 1
                            ELSE st.low]
    ELSE st

RECURSIVE Scan(_, _, _, _)
\* reading str from position i to position j, one half after the other
Scan(str, i, j, st) ==
    IF i > j THEN st
    ELSE IF i = j THEN ScanStep(st, str[i])
    ELSE The({Scan(str, ((i + j) \div 2) + 1, j, left)
                : left \in {Scan(str, i, (i + j) \div 2, st)}})

\* str opens with a "(" that stays open up to its last character, a ")"
\* outside every literal
SelfParenthesized(str) ==
    /\ Len(str) >= 2
    /\ str[1] = "("
    /\ str[Len(str)] = ")"
    /\ Scan(str, 2, Len(str) - 1, [depth |-> 1, low |-> 1, inside |-> FALSE])
            = [depth |-> 1, low |-> 1, inside |-> FALSE]

RECURSIVE Nodes(_)
\* the nodes of a tree: the tree and the nodes of its terms
Nodes(q) ==
    {q} \cup
    (CASE q.type \in {"Or", "And"} ->
            UNION {Nodes(q.queries[i]) : i \in 1..Len(q.queries)}
       [] q.type = "Not" -> Nodes(q.query)
       [] OTHER -> {})

\* C14: the fragment returned for a tree, and the fragment of each node of
\* the tree that compiles, opens with "(" and ends with the ")" matching it.
C14_SelfParenthesized ==
    IsCompile =>
        /\ is_ok(result) => SelfParenthesized(result.value)
        /\ \A node \in Nodes(query[1]) \ {query[1]} :
                LET fragment == query_to_postgres(fields, node)
                IN is_ok(fragment) => SelfParenthesized(fragment.value)

C14_Witness ==
    /\ IsCompile
    /\ query = Some(Equal(Some(STR_text), <<"_", "^", ")">>))
    /\ result = Ok(<<"(", "t", "e", "x", "t", " ", "=", " ", "'", "_", "^",
            ")", "'", ")">>)

Entries(fs) == {fs[i] : i \in 1..Len(fs)}

\* C18: at every step the registry holds one config per field name; an
\* insertion leaves the inserted config under its name, whatever was there
\* before, and every other entry as it was; no other step changes an entry;
\* and a comparison on a registered name compiles as it does on a registry
\* holding that one config alone.
C18_LastWriteWins ==
    [][/\ \A i, j \in 1..Len(fields') :
            fields'[i].field = fields'[j].field => i = j
       /\ op' = "field" =>
            /\ config'[1] \in Entries(fields')
            /\ \A old \in Entries(fields) :
                    old.field # config'[1].field => old \in Entries(fields')
            /\ Entries(fields') \subseteq Entries(fields) \cup {config'[1]}
       /\ op' # "field" => fields' = fields
       /\ (op' = "query_to_postgres"
                /\ query'[1].type \in {"Equal", "Order"}
                /\ query'[1].field # None) =>
            \A held \in Entries(fields') :
                held.field = query'[1].field[1] =>
                    result' = query_to_postgres(<<held>>, query'[1])
      ]_vars

C18_Witness ==
    /\ op = "field"
    /\ config = Some(TestId)
    /\ fields = <<TestText, TestId>>

\* C19: on every registry, the empty one included, an Or of no terms
\* compiles to the always-true fragment TRUE and an And of no terms to the
\* always-false fragment FALSE, each in the parentheses every fragment is
\* returned in; neither fails.
C19_EmptyOrAnd ==
    IsCompile =>
        /\ query[1] = [type |-> "Or", queries |-> <<>>] =>
                result = Ok(<<"(", "T", "R", "U", "E", ")">>)
        /\ query[1] = [type |-> "And", queries |-> <<>>] =>
                result = Ok(<<"(", "F", "A", "L", "S", "E", ")">>)

C19_Witness ==
    /\ IsCompile
    /\ fields = <<>>
    /\ query = Some([type |-> "Or", queries |-> <<>>])
    /\ result = Ok(<<"(", "T", "R", "U", "E", ")">>)

----------------------------------------------------------------------------
(* Claims on the parser *)

RECURSIVE GroupsFrom(_, _, _)
\* the atoms of a shape from the i-th on, split where a space connects them
GroupsFrom(shape, i, groups) ==
    IF i > Len(shape.atoms) THEN groups
    ELSE LET q == Atoms[shape.atoms[i]].query
             last == Len(groups)
         IN IF i > 1 /\ shape.connectors[i - 1] = "and"
            THEN GroupsFrom(shape, i + 1,
                    [groups EXCEPT ![last] = Append(groups[last], q)])
            ELSE GroupsFrom(shape, i + 1, Append(groups, <<q>>))

Collapse(node, terms) ==
    IF Len(terms) = 1 THEN terms[1] ELSE [type |-> node, queries |-> terms]

\* the tree of a shape: an Or of the groups, each an And of its atoms, a
\* single group or atom standing for itself
TreeOf(shape) ==
    LET groups == GroupsFrom(shape, 1, <<>>)
    IN Collapse("Or", [g \in 1..Len(groups) |-> Collapse("And", groups[g])])

ShapeTable == {[text |-> Render(shape),
        query |-> TreeOf(shape)] : shape \in Shapes}

IsParse == op = "parse_to_postgres"

\* C4: "and" binds tighter than juxtaposition: atoms chained by "and" parse
\* to one And, chains set side by side to an Or of them, a single atom or
\* chain to itself, a parenthesized group to the tree inside it, and
\* "id > 1 and (id < 1 id: 1)" compiles on the registry of generator_test1
\* to ((id > 1) AND ((id < 1) OR (id = 1))).
C4_AndBindsTighter ==
    IsParse =>
        /\ \A e \in ShapeTable : e.text = input => query = Some(e.query)
        /\ (IsTestRegistry
                /\ input = <<"i", "d", " ", ">", " ", "1", " ", "a", "n", "d",
                        " ", "(", "i", "d", " ", "<", " ", "1", " ", "i", "d",
                        ":", " ", "1", ")">>) =>
                result = Ok(Some(<<"(", "(", "i", "d", " ", ">", " ", "1",
                        ")", " ", "A", "N", "D", " ", "(", "(", "i", "d",
                        " ", "<", " ", "1", ")", " ", "O", "R", " ", "(",
                        "i", "d", " ", "=", " ", "1", ")", ")", ")">>))

C4_Witness ==
    /\ IsParse
    /\ IsTestRegistry
    /\ input = <<"i", "d", " ", ">", " ", "1", " ", "a", "n", "d", " ", "(",
            "i", "d", " ", "<", " ", "1", " ", "i", "d", ":", " ", "1", ")">>
    /\ query = Some(And(<<Order(Some(STR_id), "Gt", <<"1">>),
                          Or(<<Order(Some(STR_id), "Lt", <<"1">>),
                               Equal(Some(STR_id), <<"1">>)>>)>>))
    /\ result = Ok(Some(<<"(", "(", "i", "d", " ", ">", " ", "1", ")", " ",
            "A", "N", "D", " ", "(", "(", "i", "d", " ", "<", " ", "1", ")",
            " ", "O", "R", " ", "(", "i", "d", " ", "=", " ", "1", ")", ")",
            ")">>))

IsBlank(s) == \A i \in 1..Len(s) : s[i] \in {" ", "\n", "\t"}

\* C12: an input of whitespace only (or of nothing) compiles to Ok(None),
\* neither a fragment nor an error, on every registry: the empty one, one
\* whose field allows no comparison, and the registry of generator_test1.
C12_BlankInput ==
    (IsParse /\ IsBlank(input)) => (query = None /\ result = Ok(None))

C12_Witness ==
    /\ IsParse
    /\ fields = <<>>
    /\ input = <<"\n">>
    /\ result = Ok(None)

SemanticKinds ==
    {"UnknownField", "UnsupportedOperation", "InvalidValue",
     "EmptyWildcardOperation"}

\* C16: for an input the parser cannot parse, parse_to_postgres returns
\* ParseError with the length of the input less the length of the remainder
\* the parser stalled on (the length of the input when the parser reports
\* incomplete input): a position from 0 to the length of the input, the
\* start of the remainder.  ParseError is returned for no input that parses,
\* and a semantic error only for an input that parses.
C16_ParseErrorPosition ==
    IsParse =>
        LET parsed == parse(input)
        IN /\ parsed.tag = "Error" =>
                /\ result = Err([kind |-> "ParseError",
                                 pos |-> Len(input) - Len(parsed.rest)])
                /\ result.error.pos \in 0..Len(input)
                /\ SubSeq(input, result.error.pos + 1, Len(input))
                        = parsed.rest
           /\ parsed.tag = "Ok" =>
                (is_ok(result) \/ result.error.kind \in SemanticKinds)

C16_Witness ==
    /\ IsParse
    /\ fields = <<>>
    /\ input = <<"t", "e", "x", "t", ":", " ", "a", "b", "%", "c", " ", "a",
            "n", "d">>
    /\ result = Err([kind |-> "ParseError", pos |-> 11])

----------------------------------------------------------------------------
(* Claims on the user handlers *)

\* the roles a user holds: those of its user_role rows that are not deleted
Holds(ur, uid) ==
    {name \in RoleNames :
        /\ [user |-> uid, role |-> name] \in ur
        /\ \E r \in RoleTable : r.name = name /\ ~r.deleted}

\* the roles the rows of user_role give to a user
RolesOf(ur, uid) == {x.role : x \in {y \in ur : y.user = uid}}

Listed(v) == {v[i] : i \in 1..Len(v)}

\* C20: when create_user answers a request of an authenticated creator that
\* asks for a role the creator does not hold, the answer is an error, no
\* row is inserted and no message is pushed, and for a creator allowed to
\* create users the error is AttemptToElevateRole listing, each once, the
\* requested roles the creator lacks; AttemptToElevateRole is answered in no
\* other case, and a user that is created gets exactly the requested roles,
\* all of them held by the creator.
C20_NoRoleElevation ==
    [][(response = None /\ response' # None
            /\ response'[1].handler = "create_user"
            /\ response'[1].auth.claims # None) =>
        LET auth == response'[1].auth
            res == response'[1].result
            creator == auth.claims[1].uid
            requested == Listed(response'[1].data.roles)
            lacking == requested \ Holds(user_role, creator)
        IN IF lacking # {}
           THEN /\ res.tag = "Err"
                /\ auth.permitted =>
                    /\ res.error.kind = "AttemptToElevateRole"
                    /\ Listed(res.error.roles) = lacking
                    /\ Len(res.error.roles) = Cardinality(lacking)
                /\ user_table' = user_table
                /\ user_role' = user_role
                /\ pushed' = pushed
           ELSE /\ res.tag = "Err" => res.error.kind # "AttemptToElevateRole"
                /\ res.tag = "Ok" =>
                    /\ Len(user_table') = Len(user_table) + 1
                    /\ res.value.id = Len(user_table')
                    /\ RolesOf(user_role', res.value.id) = requested
                    /\ requested \subseteq Holds(user_role', creator)
                    /\ Len(pushed') = Len(pushed) + 1
                /\ res.tag = "Err" =>
                    /\ user_table' = user_table
                    /\ user_role' = user_role
                    /\ pushed' = pushed
      ]_vars

C20_Witness ==
    /\ response # None
    /\ response[1].auth = [permitted |-> TRUE, claims |-> Some([uid |-> 1])]
    /\ response[1].data.roles = <<"admin", "old">>
    /\ {[user |-> 1, role |-> "admin"], [user |-> 1, role |-> "old"]}
            \subseteq user_role
    /\ response[1].result = Err([kind |-> "AttemptToElevateRole",
                                 roles |-> <<"old">>])
    /\ Len(user_table) = 1
    /\ pushed = <<>>

(* The order of the checks of a targeted comparison *)

\* C21: a comparison on a named field looks the field up, then checks the
\* capability, then escapes the value: an unknown field gives UnknownField
\* and a registered field without the capability gives UnsupportedOperation
\* whatever the handler would say of the value, and InvalidValue is returned
\* only for a registered field that has the capability and whose handler
\* rejects the value, and then it is the handler's error.
C21_CheckOrder ==
    IsTargeted =>
        LET q == query[1]
            name == q.field[1]
        IN /\ ~Registered(name) => result = Err(UnknownField(name))
           /\ (Registered(name) /\ ~Capable(ConfigOf(name), q)) =>
                result = Err(UnsupportedOperation(name, OperationOf(q)))
           /\ (Registered(name) /\ Capable(ConfigOf(name), q)
                    /\ ~Accepts(ConfigOf(name), q.value)) =>
                /\ result = FieldConfig_escape(ConfigOf(name), q.value)
                /\ result.error.kind = "InvalidValue"
           /\ (~is_ok(result) /\ result.error.kind = "InvalidValue") =>
                /\ Registered(name)
                /\ Capable(ConfigOf(name), q)
                /\ ~Accepts(ConfigOf(name), q.value)

C21_Witness ==
    /\ IsTargeted
    /\ query = Some(Order(Some(STR_id), "Lt", <<"a", "b", "%", "c">>))
    /\ Registered(STR_id)
    /\ ConfigOf(STR_id).escape_handler = Some(escape_unquoted("i32"))
    /\ ~Accepts(ConfigOf(STR_id), query[1].value)
    /\ ~ConfigOf(STR_id).partial_order
    /\ ConfigOf(STR_id).partial_equal
    /\ result = Err(UnsupportedOperation(STR_id, STR_order))

(* The rendering of Order *)

\* the operator as the query text spells it
Spelling(operator) ==
    CASE operator = "Lt" -> <<"<">>
      [] operator = "Lte" -> <<"<", "=">>
      [] operator = "Gt" -> <<">">>
      [] operator = "Gte" -> <<">", "=">>

\* output name, operator and literal with one space between them
OrderText(cfg, q) ==
    unwrap_or(cfg.rename, cfg.field) \o <<" ">> \o Spelling(q.operator)
        \o <<" ">> \o FieldConfig_escape(cfg, q.value).value

\* C22: an Order that compiles renders, for the field it names or for each
\* wildcard field it reaches, the rename of the field when it has one and
\* its name otherwise, a space, the operator as written (<, <=, >, >=), a
\* space and the escaped value, also when the field is flagged use_like.
C22_OrderRendering ==
    (IsComparison /\ query[1].type = "Order" /\ is_ok(result)) =>
        LET q == query[1]
        IN IF q.field # None
           THEN result.value = Parenthesized(OrderText(ConfigOf(q.field[1]), q))
           ELSE result.value = Parenthesized(Interleave(
                    [k \in 1..Len(Survivors(q)) |->
                        OrderText(fields[Survivors(q)[k]], q)],
                    <<" ", "O", "R", " ">>))

C22_Witness ==
    /\ IsTargeted
    /\ query = Some(Order(Some(STR_text), "Lte", <<"a", "b", "%", "c">>))
    /\ Registered(STR_text)
    /\ ConfigOf(STR_text).use_like
    /\ ConfigOf(STR_text).rename = Some(STR_text_column)
    /\ result = Ok(<<"(", "\"", "t", "e", "x", "t", "\"", " ", "<", "=", " ",
                     "'", "a", "b", "%", "c", "'", ")">>)

----------------------------------------------------------------------------
(* Claims on the avatar handlers *)

\* the files the rows of table "user" name
Referenced(users) ==
    UNION {avatar_files(users[i].avatar, users[i].avatar128) :
                i \in 1..Len(users)}

\* a handler answers in this step
Answers(handler) ==
    /\ response = None
    /\ response' # None
    /\ response'[1].handler = handler

\* C24: no step of the avatar handlers removes a file that a row names once
\* the step is done; an upload that answers after update_avatars succeeded
\* removes nothing but the avatars it fetched at its start and pushes one
\* UserUpdated; an upload whose update_avatars failed answers an error,
\* removes exactly the avatar and the thumbnail it wrote, and leaves the
\* fetched avatars, the row and the pushed messages as they were.
C24_UploadOrder ==
    [][/\ (files \ files') \cap Referenced(user_table') = {}
       /\ Answers("upload_avatar") =>
            LET call == response'[1].call
                res == response'[1].result
                old == avatar_files(call.old_avatars.avatar,
                                    call.old_avatars.avatar128)
                new == avatar_files(call.avatar, call.avatar128)
            IN /\ is_ok(res) <=> call.pc = "updated"
               /\ call.pc = "updated" =>
                    /\ files \ files' = old \cap files
                    /\ user_table' = user_table
                    /\ Len(pushed') = Len(pushed) + 1
               /\ call.pc = "written" =>
                    /\ new \subseteq files
                    /\ files' = files \ new
                    /\ old \cap files \subseteq files'
                    /\ user_table' = user_table
                    /\ pushed' = pushed
               /\ call.pc = "fetched" =>
                    UNCHANGED <<files, user_table, pushed>>
      ]_vars

C24_Witness ==
    /\ response # None
    /\ response[1].handler = "upload_avatar"
    /\ response[1].call.pc = "written"
    /\ response[1].call.avatar128 # None
    /\ response[1].call.old_avatars.avatar128 # None
    /\ response[1].result = Err(InternalServerError)
    /\ files = Referenced(user_table)
    /\ files = avatar_files(response[1].call.old_avatars.avatar,
                            response[1].call.old_avatars.avatar128)
    /\ pushed = <<>>

\* C28: once two avatar calls that both succeeded have finished, the avatar
\* folder holds exactly the files the rows name: every file the calls wrote
\* and no row names is removed, and every file a row names exists.
C28_NoOrphanFiles ==
    (requests = EmptyBag /\ Len(pushed) = 2) => files = Referenced(user_table)

----------------------------------------------------------------------------
(* Claims on the account handlers *)

\* the users that are not deleted and are not the user other
Others(users, other) ==
    {i \in 1..Len(users) : ~users[i].deleted /\ i # other}

\* a user that is not deleted and is not the user other has the username or
\* the email
Taken(users, other, username, email) ==
    \E i \in Others(users, other) :
        \/ username # None /\ users[i].username = username[1]
        \/ email # None /\ users[i].email = email

\* no two users that are not deleted have the same username or the same
\* email that is not null
UniqueUsers(users) ==
    \A i \in 1..Len(users) :
        ~users[i].deleted =>
            ~Taken(users, i, Some(users[i].username), users[i].email)

\* the registration a confirm_registration request can complete: it has the
\* id, is not completed, has not expired and has the code
Confirmable(registrations, data) ==
    {r \in registrations :
        /\ r.id = data.reg_id
        /\ r.completed = None
        /\ ~r.expired
        /\ r.code = data.code}

\* the email updating a confirm_email_updating request can complete: it has
\* the id and the code, is not completed, has not expired, and the caller
\* may confirm it
ConfirmableUpdating(updatings, auth, data) ==
    {r \in updatings :
        /\ r.id = data.update_id
        /\ r.completed = None
        /\ ~r.expired
        /\ r.code = data.code
        /\ \/ has_permission(auth, "user-email-updating", "confirm")
           \/ /\ has_permission(auth, "user-email-updating", "confirm-self")
              /\ ~not_owner(auth, r.user)}

\* the request answered in this step would leave two users with the same
\* username or email
WouldDuplicate(answer) ==
    CASE answer.handler = "create_user" ->
            Taken(user_table, 0, Some(answer.data.username), answer.data.email)
      [] answer.handler = "update_user" ->
            /\ answer.auth.permitted
            /\ answer.data.uid \in Others(user_table, 0)
            /\ Taken(user_table, answer.data.uid, answer.data.username,
                     IF answer.data.email = None THEN None
                     ELSE answer.data.email[1])
      [] answer.handler = "confirm_registration" ->
            /\ answer.auth.permitted
            /\ \E r \in Confirmable(user_registration, answer.data) :
                    Taken(user_table, 0, Some(r.username), Some(r.email))
      [] answer.handler = "confirm_email_updating" ->
            \E r \in ConfirmableUpdating(user_email_updating, answer.auth,
                                         answer.data) :
                /\ r.user \in Others(user_table, 0)
                /\ Taken(user_table, r.user, None, Some(r.new_email))
      [] OTHER -> FALSE

\* C25: whatever the order of the create_user, confirm_registration,
\* update_user and confirm_email_updating requests, no two users that are not
\* deleted have the same username or the same email that is not null, and a
\* request that would make two such users is answered DuplicatedUser and
\* changes no table and sends no message
C25_UniqueUsers ==
    /\ [](UniqueUsers(user_table))
    /\ [][(response = None /\ response' # None
                /\ WouldDuplicate(response'[1]))
            => /\ ~is_ok(response'[1].result)
               /\ response'[1].result.error.kind = "DuplicatedUser"
               /\ UNCHANGED <<user_table, user_role, user_registration,
                              user_email_updating, pushed>>]_vars

\* each of the four handlers has refused a duplicate, and each has changed
\* the table
C25_Witness ==
    /\ response # None
    /\ ~is_ok(response[1].result)
    /\ response[1].result.error.kind = "DuplicatedUser"
    /\ response[1].handler = "confirm_email_updating"
    /\ \E i \in 2..Len(user_table) :
            ~user_table[i].deleted /\ user_table[i].email = Some("e1")
    /\ \E k \in 1..Len(pushed) : pushed[k].type = "UserUpdated"


\* the registrations with the id that are not completed
Uncompleted(registrations, id) ==
    {r \in registrations : r.id = id /\ r.completed = None}

\* the errors with which the query confirm_registration refuses a request
RegistrationFailures ==
    {"UserRegistrationNotFound", "UserRegistrationExpired",
     "UserRegistrationWrongCode", "DuplicatedUser"}

\* C26: a registration is confirmed at most once. A confirm_registration
\* that runs its query adds a user only for a registration that has the id,
\* is not completed, has not expired and has the code, it adds one user, and
\* in the same step the registration becomes completed; a completed
\* registration stays completed; a confirm for an id with no uncompleted
\* registration is answered UserRegistrationNotFound; and a confirm answered
\* NotFound, Expired, WrongCode or DuplicatedUser leaves the registrations
\* and the users as they were
C26_ConfirmedOnce ==
    [][/\ \A r \in user_registration :
            r.completed # None
                => Uncompleted(user_registration', r.id) = {}
       /\ (response = None /\ response' # None
                /\ response'[1].handler = "confirm_registration"
                /\ response'[1].auth.permitted)
            => LET answer == response'[1]
                   confirmable == Confirmable(user_registration, answer.data)
               IN /\ user_table' # user_table
                        => /\ confirmable # {}
                           /\ is_ok(answer.result)
                           /\ Len(user_table') = Len(user_table) + 1
                           /\ SubSeq(user_table', 1, Len(user_table))
                                = user_table
                           /\ \E r \in confirmable :
                                /\ user_table'[Len(user_table')] =
                                    user_row(r.username, r.password,
                                             Some(r.email))
                                /\ user_registration' =
                                    (user_registration \ {r}) \cup
                                    {[r EXCEPT !.completed = Some(TRUE)]}
                  /\ is_ok(answer.result) => user_table' # user_table
                  /\ Uncompleted(user_registration, answer.data.reg_id) = {}
                        => answer.result = Err(UserRegistrationNotFound)
                  /\ ~is_ok(answer.result)
                        => /\ answer.result.error.kind
                                \in RegistrationFailures
                           /\ UNCHANGED <<user_table, user_role,
                                          user_registration, pushed>>]_vars

\* a registration has been confirmed, its user is in the table, and a later
\* confirm with its id and code has been answered UserRegistrationNotFound
C26_Witness ==
    /\ response # None
    /\ response[1].handler = "confirm_registration"
    /\ response[1].data = [reg_id |-> "r1", code |-> "c1"]
    /\ response[1].result = Err(UserRegistrationNotFound)
    /\ \E r \in user_registration : r.id = "r1" /\ r.completed # None
    /\ \E i \in 2..Len(user_table) :
            /\ ~user_table[i].deleted
            /\ user_table[i].username = "u1"
            /\ user_table[i].email = Some("e1")

----------------------------------------------------------------------------
(* Claims on the password handlers *)

\* a TokenRevoked message for the token has been pushed
RevocationPushed(messages, t) ==
    \E k \in 1..Len(messages) : messages[k] = TokenRevoked(t.id, t.user)

\* the calls of update_password_impl that stored their password in this step
Stored ==
    {call \in BagToSet(requests') :
        /\ call.pc = "updated"
        /\ CopiesIn(call, requests') > CopiesIn(call, requests)}

----------------------------------------------------------------------------
(* Claims on the email updating handlers *)

\* the unrestricted permission each of the three handlers asks for
Unrestricted(handler) ==
    CASE handler = "query_email_updating" -> "read"
      [] handler = "confirm_email_updating" -> "confirm"
      [] handler = "resend_email_updating_email" -> "resend"

SelfPermission(handler) ==
    CASE handler = "query_email_updating" -> "read-self"
      [] handler = "confirm_email_updating" -> "confirm-self"
      [] handler = "resend_email_updating_email" -> "resend-self"

IsEmailUpdatingHandler(handler) ==
    handler \in {"query_email_updating", "confirm_email_updating",
                 "resend_email_updating_email"}

\* the email updating records that have the id
Records(id) == {r \in user_email_updating : r.id = id}

\* the records with the id that the statement of the handler finds:
\* query_email_updating any, the two others those not completed, resend
\* those of a user that is not deleted
Found(handler, id) ==
    {r \in Records(id) :
        /\ handler # "query_email_updating" => r.completed = None
        /\ handler = "resend_email_updating_email"
            => live_user(user_table, r.user)}

\* the caller of the answered request lacks the unrestricted permission
Restricted(answer) ==
    ~has_permission(answer.auth, "user-email-updating",
                    Unrestricted(answer.handler))

\* the caller holds the -self permission and is the user of one of the
\* records
SelfOf(answer, records) ==
    /\ has_permission(answer.auth, "user-email-updating",
                      SelfPermission(answer.handler))
    /\ \E r \in records : ~not_owner(answer.auth, r.user)

\* the request succeeded: the handler of the query answers the record, the
\* two others Ok
Succeeded(answer) ==
    /\ is_ok(answer.result)
    /\ answer.handler = "query_email_updating"
        => answer.result.value.status \in {"Processing", "Passed", "Rejected"}

IsPermissionDenied(answer) ==
    /\ ~is_ok(answer.result)
    /\ answer.result.error = PermissionDeniedFor("user-email-updating",
                                Unrestricted(answer.handler))

\* the query answered UserEmailUpdatingNotFound, which the handler of the
\* query turns into the status NotFound
IsNotFound(answer) ==
    IF answer.handler = "query_email_updating"
    THEN is_ok(answer.result) /\ answer.result.value.status = "NotFound"
    ELSE answer.result = Err(UserEmailUpdatingNotFound)

\* the step changes no email, completes no record and sends no mail
NothingDone == UNCHANGED <<user_table, user_email_updating, mails, pushed>>

\* an email updating handler answers in this step
AnswersEmailUpdating ==
    /\ response = None
    /\ response' # None
    /\ IsEmailUpdatingHandler(response'[1].handler)

\* C29 as claimed, for the requests whose id is that of a record: a caller
\* without the unrestricted permission succeeds only with the -self
\* permission and as the user of the record, and is otherwise answered
\* PermissionDenied with nothing done
C29_SelfOnly ==
    [][(AnswersEmailUpdating /\ Restricted(response'[1])
            /\ Records(response'[1].data.update_id) # {})
        => LET answer == response'[1]
           IN IF SelfOf(answer, Records(answer.data.update_id))
              THEN TRUE
              ELSE IsPermissionDenied(answer) /\ NothingDone]_vars

\* C29, amended: a caller without the unrestricted permission succeeds only
\* with the -self permission and as the user of the record the statement
\* finds for the id; otherwise the caller is answered PermissionDenied, or
\* UserEmailUpdatingNotFound when the caller holds the -self permission and
\* the statement finds no record, so never Expired or WrongCode, and no
\* email is changed, no record completed and no mail sent
C29_SelfOnlyFound ==
    [][(AnswersEmailUpdating /\ Restricted(response'[1]))
        => LET answer == response'[1]
               found == Found(answer.handler, answer.data.update_id)
           IN IF SelfOf(answer, found)
              THEN TRUE
              ELSE /\ ~Succeeded(answer)
                   /\ IF /\ has_permission(answer.auth, "user-email-updating",
                                           SelfPermission(answer.handler))
                         /\ found = {}
                      THEN IsNotFound(answer)
                      ELSE IsPermissionDenied(answer)
                   /\ NothingDone]_vars

\* a caller with confirm-self only, who is not the user of the record, has
\* been answered PermissionDenied for a record that has expired, with a code
\* that is not the record's
C29_Witness ==
    /\ response # None
    /\ response[1].handler = "confirm_email_updating"
    /\ response[1].auth.permissions = {<<"user-email-updating", "confirm-self">>}
    /\ response[1].auth.claims = Some([uid |-> 2])
    /\ response[1].data = [update_id |-> "m1", code |-> "c0"]
    /\ response[1].result =
            Err(PermissionDeniedFor("user-email-updating", "confirm"))
    /\ \E r \in user_email_updating :
            r.id = "m1" /\ r.user = 1 /\ r.expired /\ r.completed = None

----------------------------------------------------------------------------
(* Claims on the permission tree *)

\* the permissions a role of the tree holds
HeldBy(map, role) == UNION {e.permissions : e \in {x \in map : x.role = role}}

\* the permissions held by at least one role of the tree
Held(map) == UNION {HeldBy(map, role) : role \in tree_roles(map)}

\* the method called in this step
CallOf(method) ==
    response = None /\ response' # None /\ response'[1].handler = method

\* C30: get() answers exactly the permissions held by at least one role of
\* the tree, and get_subscribe() exactly the subjects of the held
\* permissions whose action is "subscribe"; the tree holds one entry for a
\* role; a permission that another role holds too is still held after
\* remove_permission or remove_role on one role; add_permission and
\* remove_permission on a role that is not in the tree leave the tree as it
\* was, and on a role of the tree they change the permissions of that role
\* only, by that permission only
C30_PermissionTree ==
    [][/\ CallOf("get") => response'[1].result = Held(tree)
       /\ CallOf("get_subscribe")
            => response'[1].result =
                    {p.subject : p \in {q \in Held(tree) :
                                            q.action = "subscribe"}}
       /\ \A e1 \in tree', e2 \in tree' : e1.role = e2.role => e1 = e2
       /\ CallOf("add_role")
            => LET args == response'[1].args
               IN /\ HeldBy(tree', args.role) = args.permissions
                  /\ tree_roles(tree') = tree_roles(tree) \cup {args.role}
                  /\ \A role \in tree_roles(tree) \ {args.role} :
                        HeldBy(tree', role) = HeldBy(tree, role)
       /\ CallOf("remove_role")
            => LET args == response'[1].args
               IN /\ tree_roles(tree') = tree_roles(tree) \ {args.role}
                  /\ \A role \in tree_roles(tree') :
                        HeldBy(tree', role) = HeldBy(tree, role)
                  /\ Held(tree') =
                        UNION {HeldBy(tree, role) :
                                role \in tree_roles(tree) \ {args.role}}
       /\ (CallOf("add_permission") \/ CallOf("remove_permission"))
            => LET args == response'[1].args
                   others == tree_roles(tree) \ {args.role}
               IN /\ args.role \notin tree_roles(tree) => tree' = tree
                  /\ tree_roles(tree') = tree_roles(tree)
                  /\ \A role \in others :
                        HeldBy(tree', role) = HeldBy(tree, role)
                  /\ args.role \in tree_roles(tree)
                        => HeldBy(tree', args.role) =
                            IF response'[1].handler = "add_permission"
                            THEN HeldBy(tree, args.role)
                                    \cup {args.permission}
                            ELSE HeldBy(tree, args.role)
                                    \ {args.permission}
                  /\ (\E role \in others :
                            args.permission \in HeldBy(tree, role))
                        => args.permission \in Held(tree')]_vars

\* a permission was held through two roles and has been removed from one:
\* get() still answers it, and get_subscribe() its subject
C30_Witness ==
    /\ response # None
    /\ response[1].handler = "get_subscribe"
    /\ response[1].result = {"user"}
    /\ \E e \in tree : e.role = 1 /\ e.permissions = {}
    /\ \E e \in tree :
        /\ e.role = 2
        /\ e.permissions =
            {[permission |-> 1, subject |-> "user", action |-> "subscribe"],
             [permission |-> 2, subject |-> "user", action |-> "read"]}

====
